---- MODULE Spec2Model ----
(***************************************************************************)
(* Search filter engine of Strawberry: the recursive-descent filter parser *)
(* (FilterParser, CollectionFilterParser, PlaylistFilterParser), the       *)
(* comparators and the filter tree they build, the evaluation of the tree *)
(* against a song, and the CollectionFilter proxy model that keeps the     *)
(* last parsed tree.                                                       *)
(*                                                                         *)
(* A QString is a sequence of one-character strings.  The scan position    *)
(* iter_ is a 1-based index into filter_string_; end_ is Len + 1.          *)
(***************************************************************************)
EXTENDS Integers, Sequences, FiniteSets, TLC

(***************************************************************************)
(* Characters and strings                                                  *)
(***************************************************************************)

\* The characters the model uses, in code-point order (QChar ordering).
CharOrder ==
  << " ", "!", "\"", "(", ")", "-", ".",
     "0", "1", "2", "3", "4", "5", "6", "7", "8", "9",
     ":", "<", "=", ">",
     "A", "D", "N", "O", "Q", "R", "\\",
     "a", "b", "c", "d", "e", "g", "h", "i", "j", "k", "l", "n", "o", "p",
     "q", "r", "s", "t", "u", "w", "y", "z" >>

Code(c) == CHOOSE i \in DOMAIN CharOrder : CharOrder[i] = c

isSpace(c) == c = " "

LowerOf == [A |-> "a", D |-> "d", N |-> "n", O |-> "o", Q |-> "q", R |-> "r"]

toLowerChar(c) == IF c \in DOMAIN LowerOf THEN LowerOf[c] ELSE c

toLower(str) == [i \in 1..Len(str) |-> toLowerChar(str[i])]

\* QString::left(n)
left(str, n) == SubSeq(str, 1, n)

\* QString::contains(term, Qt::CaseInsensitive)
containsCI(element, term) ==
  LET e == toLower(element)
      t == toLower(term)
  IN \E k \in 0..(Len(e) - Len(t)) : SubSeq(e, k + 1, k + Len(t)) = t

\* operator<(QString, QString): lexicographic on code units
RECURSIVE strLess(_, _)
strLess(a, b) ==
  IF b = <<>> THEN FALSE
  ELSE IF a = <<>> THEN TRUE
  ELSE IF Code(Head(a)) < Code(Head(b)) THEN TRUE
  ELSE IF Code(Head(a)) > Code(Head(b)) THEN FALSE
  ELSE strLess(Tail(a), Tail(b))

Digits == {"0", "1", "2", "3", "4", "5", "6", "7", "8", "9"}

DigitVal(c) == Code(c) - Code("0")

isDigits(str) == str # <<>> /\ \A i \in 1..Len(str) : str[i] \in Digits

RECURSIVE digitsValue(_)
digitsValue(str) ==
  IF str = <<>> THEN 0 ELSE 10 * digitsValue(SubSeq(str, 1, Len(str) - 1)) + DigitVal(str[Len(str)])

\* Strip leading zeros of a numeral (keeps one digit).
RECURSIVE stripZeros(_)
stripZeros(str) ==
  IF Len(str) > 1 /\ Head(str) = "0" THEN stripZeros(Tail(str)) ELSE str

\* INT_MAX as text: the largest numeral QString::toInt accepts.
IntMaxStr == <<"2", "1", "4", "7", "4", "8", "3", "6", "4", "7">>

\* QString::toInt(): the value of an optionally signed decimal numeral, 0 when
\* the text is not a numeral or does not fit a 32 bit int.
toInt(str) ==
  LET neg  == str # <<>> /\ Head(str) = "-"
      body == IF neg THEN Tail(str) ELSE str
      mag  == stripZeros(body)
      fits == Len(mag) < Len(IntMaxStr) \/ (Len(mag) = Len(IntMaxStr) /\ ~strLess(IntMaxStr, mag))
  IN IF ~isDigits(body) \/ ~fits THEN 0
     ELSE IF neg THEN 0 - digitsValue(mag) ELSE digitsValue(mag)

\* QString::number(int)
RECURSIVE natToStr(_)
natToStr(n) ==
  IF n < 10 THEN << CharOrder[Code("0") + n] >>
  ELSE Append(natToStr(n \div 10), CharOrder[Code("0") + (n % 10)])

number(n) == IF n < 0 THEN <<"-">> \o natToStr(0 - n) ELSE natToStr(n)

(***************************************************************************)
(* FilterParser: the scanner state and the keyword checks                  *)
(*                                                                         *)
(* A parser state p is [iter, buf, loops, checks]: iter_ and buf_ of the   *)
(* parser object, loops, a record of every iteration of the and-group and  *)
(* or-group loops, and checks, a record of every call of checkAnd (both    *)
(* history, not read by the parser).                                       *)
(***************************************************************************)

end_(s) == Len(s) + 1

RECURSIVE skipSpaces(_, _)
skipSpaces(s, i) ==
  IF i # end_(s) /\ isSpace(s[i]) THEN skipSpaces(s, i + 1) ELSE i

\* void FilterParser::advance()
advance(s, p) == [p EXCEPT !.iter = skipSpaces(s, p.iter)]

\* iter_ != end_ && (iter_->isSpace() || *iter_ == '-' || *iter_ == '(')
atKeywordEnd(s, i) ==
  i # end_(s) /\ (isSpace(s[i]) \/ s[i] = "-" \/ s[i] = "(")

\* buf_ += *iter_; ++iter_;
take(s, p) == [p EXCEPT !.buf = Append(@, s[p.iter]), !.iter = @ + 1]

\* bool FilterParser::checkAnd(): the result and the parser state it leaves.
checkAnd(s, p) ==
  IF p.iter # end_(s) /\ s[p.iter] = "A"
  THEN LET p1 == take(s, p)
       IN IF p1.iter # end_(s) /\ s[p1.iter] = "N"
          THEN LET p2 == take(s, p1)
               IN IF p2.iter # end_(s) /\ s[p2.iter] = "D"
                  THEN LET p3 == take(s, p2)
                       IN IF atKeywordEnd(s, p3.iter)
                          THEN [ok |-> TRUE, p |-> [advance(s, p3) EXCEPT !.buf = <<>>]]
                          ELSE [ok |-> FALSE, p |-> p3]
                  ELSE [ok |-> FALSE, p |-> p2]
          ELSE [ok |-> FALSE, p |-> p1]
  ELSE [ok |-> FALSE, p |-> p]

\* if (step_over) { buf_.clear(); advance(); }
stepOver(s, p, step_over) ==
  IF step_over THEN advance(s, [p EXCEPT !.buf = <<>>]) ELSE p

\* checkOr, had the keyword been compared without regard to case.
checkOr_AnyCase(s, p, step_over) ==
  IF p.buf # <<>>
  THEN IF toLower(p.buf) = <<"o", "r">>
       THEN [ok |-> TRUE, p |-> stepOver(s, p, step_over)]
       ELSE [ok |-> FALSE, p |-> p]
  ELSE IF p.iter # end_(s) /\ toLowerChar(s[p.iter]) = "o"
       THEN LET p1 == take(s, p)
            IN IF p1.iter # end_(s) /\ toLowerChar(s[p1.iter]) = "r"
               THEN LET p2 == take(s, p1)
                    IN IF atKeywordEnd(s, p2.iter)
                       THEN [ok |-> TRUE, p |-> stepOver(s, p2, step_over)]
                       ELSE [ok |-> FALSE, p |-> p2]
               ELSE [ok |-> FALSE, p |-> p1]
       ELSE [ok |-> FALSE, p |-> p]

\* bool FilterParser::checkOr(const bool step_over)
checkOr(s, p, step_over) ==
  IF p.buf # <<>>
  THEN IF p.buf = <<"O", "R">>
       THEN [ok |-> TRUE, p |-> stepOver(s, p, step_over)]
       ELSE [ok |-> FALSE, p |-> p]
  ELSE IF p.iter # end_(s) /\ s[p.iter] = "O"
       THEN LET p1 == take(s, p)
            IN IF p1.iter # end_(s) /\ s[p1.iter] = "R"
               THEN LET p2 == take(s, p1)
                    IN IF atKeywordEnd(s, p2.iter)
                       THEN [ok |-> TRUE, p |-> stepOver(s, p2, step_over)]
                       ELSE [ok |-> FALSE, p |-> p2]
               ELSE [ok |-> FALSE, p |-> p1]
       ELSE [ok |-> FALSE, p |-> p]

(***************************************************************************)
(* Floats.  A float is an exact decimal [num, den] with den a power of     *)
(* ten; the values compared here (ratings and the search text of a rating  *)
(* term) are short decimals, for which float rounding plays no part.       *)
(***************************************************************************)

RECURSIVE pow10(_)
pow10(k) == IF k = 0 THEN 1 ELSE 10 * pow10(k - 1)

dotAt(str) ==
  IF \E i \in 1..Len(str) : str[i] = "."
  THEN CHOOSE i \in 1..Len(str) : str[i] = "." /\ \A j \in 1..(i - 1) : str[j] # "."
  ELSE 0

\* QString::toFloat(): [-]digits[.digits], anything else is 0.0
toFloat(str) ==
  LET neg   == str # <<>> /\ Head(str) = "-"
      body  == IF neg THEN Tail(str) ELSE str
      d     == dotAt(body)
      whole == IF d = 0 THEN body ELSE SubSeq(body, 1, d - 1)
      frac  == IF d = 0 THEN <<>> ELSE SubSeq(body, d + 1, Len(body))
      ok    == /\ whole \o frac # <<>>
               /\ \A i \in 1..Len(whole) : whole[i] \in Digits
               /\ \A i \in 1..Len(frac) : frac[i] \in Digits
               /\ Len(stripZeros(whole \o frac)) <= 9
      mag   == digitsValue(whole \o frac)
  IN IF ~ok THEN [num |-> 0, den |-> 1]
     ELSE [num |-> IF neg THEN 0 - mag ELSE mag, den |-> pow10(Len(frac))]

floatEq(a, b) == a.num * b.den = b.num * a.den
floatLt(a, b) == a.num * b.den < b.num * a.den

(***************************************************************************)
(* Comparators (filterparsersearchcomparators.h).  A comparator is a       *)
(* record [kind, ...] holding its captured operand; Matches dispatches on  *)
(* the kind as the virtual call does.                                      *)
(***************************************************************************)

FilterParserDefaultComparator(value)   == [kind |-> "Default", search_term_ |-> value]
FilterParserEqComparator(value)        == [kind |-> "Eq", search_term_ |-> value]
FilterParserNeComparator(value)        == [kind |-> "Ne", search_term_ |-> value]
FilterParserLexicalGtComparator(value) == [kind |-> "LexicalGt", search_term_ |-> value]
FilterParserLexicalGeComparator(value) == [kind |-> "LexicalGe", search_term_ |-> value]
FilterParserLexicalLtComparator(value) == [kind |-> "LexicalLt", search_term_ |-> value]
FilterParserLexicalLeComparator(value) == [kind |-> "LexicalLe", search_term_ |-> value]
FilterParserFloatEqComparator(value)   == [kind |-> "FloatEq", float_term_ |-> value]
FilterParserFloatNeComparator(value)   == [kind |-> "FloatNe", float_term_ |-> value]
FilterParserFloatGtComparator(value)   == [kind |-> "FloatGt", float_term_ |-> value]
FilterParserFloatGeComparator(value)   == [kind |-> "FloatGe", float_term_ |-> value]
FilterParserFloatLtComparator(value)   == [kind |-> "FloatLt", float_term_ |-> value]
FilterParserFloatLeComparator(value)   == [kind |-> "FloatLe", float_term_ |-> value]
FilterParserGtComparator(value)        == [kind |-> "Gt", int_term_ |-> value]
FilterParserGeComparator(value)        == [kind |-> "Ge", int_term_ |-> value]
FilterParserLtComparator(value)        == [kind |-> "Lt", int_term_ |-> value]
FilterParserLeComparator(value)        == [kind |-> "Le", int_term_ |-> value]
FilterParserDropTailComparatorDecorator(cmp) == [kind |-> "DropTail", cmp_ |-> cmp]

\* dropTail, had the nanoseconds been handed on as they are.
dropTail_Keep(element) == element

\* FilterParserDropTailComparatorDecorator::Matches hands this on to cmp_
dropTail(element) ==
  IF Len(element) > 9 THEN left(element, Len(element) - 9) ELSE element

\* Matches, had the integer comparators rejected an element that is not a
\* numeral (the ok flag of QString::toInt looked at).
RECURSIVE Matches_OkChecked(_, _)
Matches_OkChecked(cmp, element) ==
  LET body == IF element # <<>> /\ Head(element) = "-" THEN Tail(element) ELSE element
      ok   == isDigits(body)
  IN
  CASE cmp.kind = "Default"   -> containsCI(element, cmp.search_term_)
    [] cmp.kind = "Eq"        -> cmp.search_term_ = element
    [] cmp.kind = "Ne"        -> cmp.search_term_ # element
    [] cmp.kind = "LexicalGt" -> strLess(cmp.search_term_, element)
    [] cmp.kind = "LexicalGe" -> ~strLess(element, cmp.search_term_)
    [] cmp.kind = "LexicalLt" -> strLess(element, cmp.search_term_)
    [] cmp.kind = "LexicalLe" -> ~strLess(cmp.search_term_, element)
    [] cmp.kind = "FloatEq"   -> floatEq(cmp.float_term_, toFloat(element))
    [] cmp.kind = "FloatNe"   -> ~floatEq(cmp.float_term_, toFloat(element))
    [] cmp.kind = "FloatGt"   -> floatLt(cmp.float_term_, toFloat(element))
    [] cmp.kind = "FloatGe"   -> ~floatLt(toFloat(element), cmp.float_term_)
    [] cmp.kind = "FloatLt"   -> floatLt(toFloat(element), cmp.float_term_)
    [] cmp.kind = "FloatLe"   -> ~floatLt(cmp.float_term_, toFloat(element))
    [] cmp.kind = "Gt"        -> ok /\ toInt(element) > cmp.int_term_
    [] cmp.kind = "Ge"        -> ok /\ toInt(element) >= cmp.int_term_
    [] cmp.kind = "Lt"        -> ok /\ toInt(element) < cmp.int_term_
    [] cmp.kind = "Le"        -> ok /\ toInt(element) <= cmp.int_term_
    [] cmp.kind = "DropTail"  -> Matches_OkChecked(cmp.cmp_, dropTail(element))

RECURSIVE Matches(_, _)
Matches(cmp, element) ==
  CASE cmp.kind = "Default"   -> containsCI(element, cmp.search_term_)
    [] cmp.kind = "Eq"        -> cmp.search_term_ = element
    [] cmp.kind = "Ne"        -> cmp.search_term_ # element
    [] cmp.kind = "LexicalGt" -> strLess(cmp.search_term_, element)
    [] cmp.kind = "LexicalGe" -> ~strLess(element, cmp.search_term_)
    [] cmp.kind = "LexicalLt" -> strLess(element, cmp.search_term_)
    [] cmp.kind = "LexicalLe" -> ~strLess(cmp.search_term_, element)
    [] cmp.kind = "FloatEq"   -> floatEq(cmp.float_term_, toFloat(element))
    [] cmp.kind = "FloatNe"   -> ~floatEq(cmp.float_term_, toFloat(element))
    [] cmp.kind = "FloatGt"   -> floatLt(cmp.float_term_, toFloat(element))
    [] cmp.kind = "FloatGe"   -> ~floatLt(toFloat(element), cmp.float_term_)
    [] cmp.kind = "FloatLt"   -> floatLt(toFloat(element), cmp.float_term_)
    [] cmp.kind = "FloatLe"   -> ~floatLt(cmp.float_term_, toFloat(element))
    [] cmp.kind = "Gt"        -> toInt(element) > cmp.int_term_
    [] cmp.kind = "Ge"        -> toInt(element) >= cmp.int_term_
    [] cmp.kind = "Lt"        -> toInt(element) < cmp.int_term_
    [] cmp.kind = "Le"        -> toInt(element) <= cmp.int_term_
    [] cmp.kind = "DropTail"  -> Matches(cmp.cmp_, dropTail(element))

(***************************************************************************)
(* Field registries and records                                            *)
(***************************************************************************)

col_artist == <<"a", "r", "t", "i", "s", "t">>
col_title  == <<"t", "i", "t", "l", "e">>
col_genre  == <<"g", "e", "n", "r", "e">>
col_year   == <<"y", "e", "a", "r">>
col_length == <<"l", "e", "n", "g", "t", "h">>
col_rating == <<"r", "a", "t", "i", "n", "g">>

\* Song::kSearchColumns and Song::kNumericalSearchColumns, restricted to the
\* fields of the modelled song.
kSearchColumns == <<col_artist, col_title, col_genre, col_year, col_length, col_rating>>

kNumericalSearchColumns == {col_year, col_length, col_rating}

\* Playlist::Column, the playlist model's column numbers.
Column_Title  == 0
Column_Artist == 1
Column_Length == 5
Column_Year   == 8
Column_Genre  == 9
Column_Rating == 28

\* PlaylistFilterParser::columns_ and numerical_columns_, as the playlist
\* filter passes them to the constructor.
columns_ ==
  (col_artist :> Column_Artist) @@ (col_title :> Column_Title) @@
  (col_genre :> Column_Genre) @@ (col_year :> Column_Year) @@
  (col_length :> Column_Length) @@ (col_rating :> Column_Rating)

numerical_columns_ == {Column_Year, Column_Length, Column_Rating}

\* columnsAt, had the value for a missing key been the rating column.
columnsAt_RatingDefault(column) ==
  IF column \in DOMAIN columns_ THEN columns_[column] ELSE Column_Rating

\* const QMap::operator[]: the value, or a default-constructed int
columnsAt(column) == IF column \in DOMAIN columns_ THEN columns_[column] ELSE 0

\* QMap::values(), in key order
columnsValues ==
  <<Column_Artist, Column_Genre, Column_Length, Column_Rating, Column_Title, Column_Year>>

Engines == {"collection", "playlist"}

\* A song is [artist, title, genre : text, year : int,
\* length_nanosec : [sec, nsec] (a 64 bit count of nanoseconds),
\* rating : tenths (a float between 0 and 1, or -1 for unrated)].

\* QString::number(qint64) of sec * 10^9 + nsec
nanosecToString(len) ==
  IF len.sec = 0 THEN number(len.nsec)
  ELSE LET ns == number(len.nsec)
       IN number(len.sec) \o [i \in 1..(9 - Len(ns)) |-> "0"] \o ns

\* QVariant(float).toString() of tenths / 10
ratingToString(tenths) ==
  LET mag  == IF tenths < 0 THEN 0 - tenths ELSE tenths
      sign == IF tenths < 0 THEN <<"-">> ELSE <<>>
  IN IF mag % 10 = 0 THEN sign \o number(mag \div 10)
     ELSE sign \o number(mag \div 10) \o <<".">> \o number(mag % 10)

\* DataFromField(field, metadata).toString()
DataFromField(field, metadata) ==
  IF field = col_artist THEN metadata.artist
  ELSE IF field = col_title THEN metadata.title
  ELSE IF field = col_genre THEN metadata.genre
  ELSE IF field = col_year THEN number(metadata.year)
  ELSE IF field = col_length THEN nanosecToString(metadata.length_nanosec)
  ELSE IF field = col_rating THEN ratingToString(metadata.rating)
  ELSE <<>>

\* model->index(row, column, parent).data().toString() of the playlist row
\* showing the song
PlaylistData(column, metadata) ==
  IF column = Column_Artist THEN metadata.artist
  ELSE IF column = Column_Title THEN metadata.title
  ELSE IF column = Column_Genre THEN metadata.genre
  ELSE IF column = Column_Year THEN number(metadata.year)
  ELSE IF column = Column_Length THEN nanosecToString(metadata.length_nanosec)
  ELSE IF column = Column_Rating THEN ratingToString(metadata.rating)
  ELSE <<>>

(***************************************************************************)
(* Filter tree (filtertree.h, and the node classes of the two parsers)     *)
(***************************************************************************)

NopFilter == [type |-> "Nop"]
NotFilter(inv) == [type |-> "Not", child_ |-> inv]
\* OrFilter, had the group been built as an and-group.
OrFilter_AsAnd(children) == [type |-> "And", children_ |-> children]

OrFilter(children) == [type |-> "Or", children_ |-> children]
AndFilter(children) == [type |-> "And", children_ |-> children]
FilterColumnTerm(column, comparator) == [type |-> "Column", column_ |-> column, cmp_ |-> comparator]
FilterTerm(comparator, columns) == [type |-> "Term", cmp_ |-> comparator, columns_ |-> columns]

\* The text a term hands to its comparator: the collection reads the song's
\* field as it is, the playlist lower-cases the cell's text.
elementOf(e, column, song) ==
  IF e = "collection" THEN DataFromField(column, song)
  ELSE toLower(PlaylistData(column, song))

\* accept, had the And node asked for one accepting child.
RECURSIVE accept_AndAny(_, _, _)
accept_AndAny(e, tree, song) ==
  CASE tree.type = "Nop"    -> TRUE
    [] tree.type = "Not"    -> ~accept_AndAny(e, tree.child_, song)
    [] tree.type = "Or"     -> \E i \in DOMAIN tree.children_ : accept_AndAny(e, tree.children_[i], song)
    [] tree.type = "And"    -> \E i \in DOMAIN tree.children_ : accept_AndAny(e, tree.children_[i], song)
    [] tree.type = "Column" -> Matches(tree.cmp_, elementOf(e, tree.column_, song))
    [] tree.type = "Term"   -> \E i \in DOMAIN tree.columns_ :
                                  Matches(tree.cmp_, elementOf(e, tree.columns_[i], song))

RECURSIVE accept(_, _, _)
accept(e, tree, song) ==
  CASE tree.type = "Nop"    -> TRUE
    [] tree.type = "Not"    -> ~accept(e, tree.child_, song)
    [] tree.type = "Or"     -> \E i \in DOMAIN tree.children_ : accept(e, tree.children_[i], song)
    [] tree.type = "And"    -> ~(\E i \in DOMAIN tree.children_ : ~accept(e, tree.children_[i], song))
    [] tree.type = "Column" -> Matches(tree.cmp_, elementOf(e, tree.column_, song))
    [] tree.type = "Term"   -> \E i \in DOMAIN tree.columns_ :
                                  Matches(tree.cmp_, elementOf(e, tree.columns_[i], song))

(***************************************************************************)
(* createSearchTermTreeNode.  The two parsers differ only in how they look *)
(* the column up: Song::kSearchColumns by name for the collection,         *)
(* columns_ and the Playlist::Column numbers for the playlist.             *)
(***************************************************************************)

\* Utilities::ParseSearchRating and Utilities::ParseSearchTime
ParseSearchRating(search) == toFloat(search)
ParseSearchTime(search) == toInt(search)

inSeq(x, seq) == \E i \in DOMAIN seq : seq[i] = x

isRatingColumn(e, column) ==
  IF e = "collection" THEN column = col_rating
  ELSE columnsAt(column) = Column_Rating

isLengthColumn(e, column) ==
  IF e = "collection" THEN column = col_length
  ELSE columnsAt(column) = Column_Length

\* isSearchColumn, had the test been "a column was named".
isSearchColumn_AnyNamed(e, column) == column # <<>>

isSearchColumn(e, column) ==
  IF e = "collection" THEN inSeq(column, kSearchColumns)
  ELSE column \in DOMAIN columns_

isNumericalColumn(e, column) ==
  /\ column # <<>>
  /\ isSearchColumn(e, column)
  /\ IF e = "collection" THEN column \in kNumericalSearchColumns
     ELSE columnsAt(column) \in numerical_columns_

\* chooseComparator, had the equality on a numerical column kept the search
\* text as typed.
chooseComparator_TypedEq(e, column, prefix, search) ==
  IF isRatingColumn(e, column)
  THEN LET parsed_search == ParseSearchRating(search)
       IN CASE prefix = <<"=">>             -> FilterParserFloatEqComparator(parsed_search)
            [] prefix \in {<<"!", "=">>, <<"<", ">">>} -> FilterParserFloatNeComparator(parsed_search)
            [] prefix = <<">">>             -> FilterParserFloatGtComparator(parsed_search)
            [] prefix = <<">", "=">>        -> FilterParserFloatGeComparator(parsed_search)
            [] prefix = <<"<">>             -> FilterParserFloatLtComparator(parsed_search)
            [] prefix = <<"<", "=">>        -> FilterParserFloatLeComparator(parsed_search)
            [] OTHER                        -> FilterParserFloatEqComparator(parsed_search)
  ELSE IF prefix \in {<<"!", "=">>, <<"<", ">">>}
  THEN FilterParserNeComparator(search)
  ELSE IF isNumericalColumn(e, column)
  THEN LET search_value == IF isLengthColumn(e, column) THEN ParseSearchTime(search)
                           ELSE toInt(search)
       IN CASE prefix = <<">">>      -> FilterParserGtComparator(search_value)
            [] prefix = <<">", "=">> -> FilterParserGeComparator(search_value)
            [] prefix = <<"<">>      -> FilterParserLtComparator(search_value)
            [] prefix = <<"<", "=">> -> FilterParserLeComparator(search_value)
            [] OTHER                 -> FilterParserEqComparator(search)
  ELSE CASE prefix = <<"=">>      -> FilterParserEqComparator(search)
         [] prefix = <<">">>      -> FilterParserLexicalGtComparator(search)
         [] prefix = <<">", "=">> -> FilterParserLexicalGeComparator(search)
         [] prefix = <<"<">>      -> FilterParserLexicalLtComparator(search)
         [] prefix = <<"<", "=">> -> FilterParserLexicalLeComparator(search)
         [] OTHER                 -> FilterParserDefaultComparator(search)

\* The comparator createSearchTermTreeNode chooses for a non-vacuous term.
chooseComparator(e, column, prefix, search) ==
  IF isRatingColumn(e, column)
  THEN LET parsed_search == ParseSearchRating(search)
       IN CASE prefix = <<"=">>             -> FilterParserFloatEqComparator(parsed_search)
            [] prefix \in {<<"!", "=">>, <<"<", ">">>} -> FilterParserFloatNeComparator(parsed_search)
            [] prefix = <<">">>             -> FilterParserFloatGtComparator(parsed_search)
            [] prefix = <<">", "=">>        -> FilterParserFloatGeComparator(parsed_search)
            [] prefix = <<"<">>             -> FilterParserFloatLtComparator(parsed_search)
            [] prefix = <<"<", "=">>        -> FilterParserFloatLeComparator(parsed_search)
            [] OTHER                        -> FilterParserFloatEqComparator(parsed_search)
  ELSE IF prefix \in {<<"!", "=">>, <<"<", ">">>}
  THEN FilterParserNeComparator(search)
  ELSE IF isNumericalColumn(e, column)
  THEN LET search_value == IF isLengthColumn(e, column) THEN ParseSearchTime(search)
                           ELSE toInt(search)
       IN CASE prefix = <<">">>      -> FilterParserGtComparator(search_value)
            [] prefix = <<">", "=">> -> FilterParserGeComparator(search_value)
            [] prefix = <<"<">>      -> FilterParserLtComparator(search_value)
            [] prefix = <<"<", "=">> -> FilterParserLeComparator(search_value)
            [] OTHER                 -> FilterParserEqComparator(number(search_value))
  ELSE CASE prefix = <<"=">>      -> FilterParserEqComparator(search)
         [] prefix = <<">">>      -> FilterParserLexicalGtComparator(search)
         [] prefix = <<">", "=">> -> FilterParserLexicalGeComparator(search)
         [] prefix = <<"<">>      -> FilterParserLexicalLtComparator(search)
         [] prefix = <<"<", "=">> -> FilterParserLexicalLeComparator(search)
         [] OTHER                 -> FilterParserDefaultComparator(search)

\* createSearchTermTreeNode, had it built the all-fields term for every term.
createSearchTermTreeNode_AllColumns(e, column, prefix, search) ==
  IF search = <<>> /\ prefix # <<"=">> THEN NopFilter
  ELSE FilterTerm(chooseComparator(e, column, prefix, search),
                  IF e = "collection" THEN kSearchColumns ELSE columnsValues)

\* createSearchTermTreeNode, had every term without search text been vacuous.
createSearchTermTreeNode_EmptyIsNop(e, column, prefix, search) ==
  IF search = <<>> THEN NopFilter
  ELSE LET cmp == chooseComparator(e, column, prefix, search)
       IN IF isSearchColumn(e, column)
          THEN FilterColumnTerm(
                 IF e = "collection" THEN column ELSE columnsAt(column),
                 IF isLengthColumn(e, column) THEN FilterParserDropTailComparatorDecorator(cmp)
                 ELSE cmp)
          ELSE FilterTerm(cmp, IF e = "collection" THEN kSearchColumns ELSE columnsValues)

createSearchTermTreeNode(e, column, prefix, search) ==
  IF search = <<>> /\ prefix # <<"=">> THEN NopFilter
  ELSE LET cmp == chooseComparator(e, column, prefix, search)
       IN IF isSearchColumn(e, column)
          THEN FilterColumnTerm(
                 IF e = "collection" THEN column ELSE columnsAt(column),
                 IF isLengthColumn(e, column) THEN FilterParserDropTailComparatorDecorator(cmp)
                 ELSE cmp)
          ELSE FilterTerm(cmp, IF e = "collection" THEN kSearchColumns ELSE columnsValues)

(***************************************************************************)
(* The recursive-descent parser.  Every parse function takes the engine e, *)
(* the filter string s and the parser state p, and returns the tree it     *)
(* builds and the parser state it leaves: [tree, p].                       *)
(***************************************************************************)

PrefixStart == {">", "<", "=", "!"}

\* scanTerm, had a quote not opened a quoted run: the quote is skipped and
\* the characters after it are read as outside quotes.
RECURSIVE scanTerm_NoQuotes(_, _, _)
scanTerm_NoQuotes(s, i, t) ==
  IF i = end_(s) THEN [t EXCEPT !.iter = i]
  ELSE LET c == s[i]
       IN IF c = "\"" THEN scanTerm_NoQuotes(s, i + 1, t)
          ELSE IF t.column = <<>> /\ c = ":"
               THEN scanTerm_NoQuotes(s, i + 1, [t EXCEPT !.column = toLower(t.buf), !.buf = <<>>, !.prefix = <<>>])
          ELSE IF isSpace(c) \/ c = "(" \/ c = ")" \/ c = "-" THEN [t EXCEPT !.iter = i]
          ELSE IF t.buf = <<>>
               THEN IF t.prefix = <<>> /\ c \in PrefixStart
                    THEN scanTerm_NoQuotes(s, i + 1, [t EXCEPT !.prefix = Append(@, c)])
                    ELSE IF t.prefix # <<"=">> /\ c = "="
                    THEN scanTerm_NoQuotes(s, i + 1, [t EXCEPT !.prefix = Append(@, c)])
                    ELSE scanTerm_NoQuotes(s, i + 1, [t EXCEPT !.buf = Append(@, c)])
          ELSE scanTerm_NoQuotes(s, i + 1, [t EXCEPT !.buf = Append(@, c)])

\* scanTerm, had '-' been part of an unquoted run.
RECURSIVE scanTerm_DashInRun(_, _, _)
scanTerm_DashInRun(s, i, t) ==
  IF i = end_(s) THEN [t EXCEPT !.iter = i]
  ELSE LET c == s[i]
       IN IF t.in_quotes
          THEN IF c = "\"" THEN scanTerm_DashInRun(s, i + 1, [t EXCEPT !.in_quotes = FALSE])
               ELSE scanTerm_DashInRun(s, i + 1, [t EXCEPT !.buf = Append(@, c)])
          ELSE IF c = "\"" THEN scanTerm_DashInRun(s, i + 1, [t EXCEPT !.in_quotes = TRUE])
          ELSE IF t.column = <<>> /\ c = ":"
               THEN scanTerm_DashInRun(s, i + 1, [t EXCEPT !.column = toLower(t.buf), !.buf = <<>>, !.prefix = <<>>])
          ELSE IF isSpace(c) \/ c = "(" \/ c = ")" THEN [t EXCEPT !.iter = i]
          ELSE IF t.buf = <<>>
               THEN IF t.prefix = <<>> /\ c \in PrefixStart
                    THEN scanTerm_DashInRun(s, i + 1, [t EXCEPT !.prefix = Append(@, c)])
                    ELSE IF t.prefix # <<"=">> /\ c = "="
                    THEN scanTerm_DashInRun(s, i + 1, [t EXCEPT !.prefix = Append(@, c)])
                    ELSE scanTerm_DashInRun(s, i + 1, [t EXCEPT !.buf = Append(@, c)])
          ELSE scanTerm_DashInRun(s, i + 1, [t EXCEPT !.buf = Append(@, c)])

\* The for loop of parseSearchTerm, from the scan position i on; t holds the
\* locals [buf, column, prefix, in_quotes].  Returns them with the position
\* the loop stops at.
RECURSIVE scanTerm(_, _, _)
scanTerm(s, i, t) ==
  IF i = end_(s) THEN [t EXCEPT !.iter = i]
  ELSE LET c == s[i]
       IN IF t.in_quotes
          THEN IF c = "\"" THEN scanTerm(s, i + 1, [t EXCEPT !.in_quotes = FALSE])
               ELSE scanTerm(s, i + 1, [t EXCEPT !.buf = Append(@, c)])
          ELSE IF c = "\"" THEN scanTerm(s, i + 1, [t EXCEPT !.in_quotes = TRUE])
          ELSE IF t.column = <<>> /\ c = ":"
               THEN scanTerm(s, i + 1, [t EXCEPT !.column = toLower(t.buf), !.buf = <<>>, !.prefix = <<>>])
          ELSE IF isSpace(c) \/ c = "(" \/ c = ")" \/ c = "-" THEN [t EXCEPT !.iter = i]
          ELSE IF t.buf = <<>>
               THEN IF t.prefix = <<>> /\ c \in PrefixStart
                    THEN scanTerm(s, i + 1, [t EXCEPT !.prefix = Append(@, c)])
                    ELSE IF t.prefix # <<"=">> /\ c = "="
                    THEN scanTerm(s, i + 1, [t EXCEPT !.prefix = Append(@, c)])
                    ELSE scanTerm(s, i + 1, [t EXCEPT !.buf = Append(@, c)])
          ELSE scanTerm(s, i + 1, [t EXCEPT !.buf = Append(@, c)])

parseSearchTerm(e, s, p) ==
  LET t == scanTerm(s, p.iter,
                    [buf |-> p.buf, column |-> <<>>, prefix |-> <<>>, in_quotes |-> FALSE, iter |-> p.iter])
      search == toLower(t.buf)
  IN [tree |-> createSearchTermTreeNode(e, t.column, t.prefix, search),
      p    |-> [p EXCEPT !.iter = t.iter, !.buf = <<>>]]

\* One entry of p.loops: the loop, the scan position at the start and at the
\* end of the iteration, whether the iteration left the loop, and the keyword
\* the iteration took as its operator ("" for none).
logged(p, loop, from, exits, keyword) ==
  [p EXCEPT !.loops = Append(@, [loop |-> loop, from |-> from, to |-> p.iter,
                                 exits |-> exits, keyword |-> keyword])]

\* One entry of p.checks: the scan position before and after a call of
\* checkAnd, and what the call returned.
checked(p, from, ok) ==
  [p EXCEPT !.checks = Append(@, [from |-> from, to |-> p.iter, ok |-> ok])]

\* A value bound to a name: Bind(v, LAMBDA x : F) is F with x standing for v
\* (a local variable assigned once).
Bind(v, F(_)) == F(v)

RECURSIVE parseOrGroup(_, _, _), orLoop(_, _, _, _), parseAndGroup(_, _, _),
          andLoop(_, _, _, _), parseSearchExpression(_, _, _)

\* while (checkOr()) { group->add(parseAndGroup()); advance(); }
orLoop(e, s, p, children) ==
  Bind(checkOr(s, p, TRUE), LAMBDA c :
    IF c.ok
    THEN Bind(parseAndGroup(e, s, c.p), LAMBDA r :
           orLoop(e, s, logged(advance(s, r.p), "or", p.iter, FALSE, "OR"),
                  Append(children, r.tree)))
    ELSE [tree |-> OrFilter(children), p |-> logged(c.p, "or", p.iter, TRUE, "")])

\* The or-group of the input left after advance(): one and-group, then the loop.
orGroup(e, s, p0) ==
  Bind(parseAndGroup(e, s, p0), LAMBDA r : orLoop(e, s, advance(s, r.p), <<r.tree>>))

\* parseOrGroup, had it returned an empty group for the empty input.
parseOrGroup_EmptyGroup(e, s, p) ==
  Bind(advance(s, p), LAMBDA p0 :
    IF p0.iter = end_(s) THEN [tree |-> OrFilter(<<>>), p |-> p0]
    ELSE orGroup(e, s, p0))

parseOrGroup(e, s, p) ==
  Bind(advance(s, p), LAMBDA p0 :
    IF p0.iter = end_(s) THEN [tree |-> NopFilter, p |-> p0]
    ELSE orGroup(e, s, p0))

\* The end of one iteration of the do-while loop of parseAndGroup, after
\* group->add(...) and advance(): p1 is the parser state, group the children.
andLoopEnd(e, s, p, p1, group) ==
  IF p1.iter # end_(s) /\ s[p1.iter] = ")"
  THEN [again |-> FALSE, p |-> logged(p1, "and", p.iter, TRUE, "")]
  ELSE Bind(checkOr(s, p1, FALSE), LAMBDA c :
         IF c.ok
         THEN [again |-> FALSE, p |-> logged(c.p, "and", p.iter, TRUE, "")]
         ELSE Bind(checkAnd(s, c.p), LAMBDA a :
                [again |-> a.p.iter # end_(s),
                 p     |-> checked(logged(a.p, "and", p.iter, a.p.iter = end_(s),
                                          IF a.ok THEN "AND" ELSE ""),
                                   c.p.iter, a.ok)]))

\* do { group->add(parseSearchExpression()); ... } while (iter_ != end_);
andLoop(e, s, p, children) ==
  Bind(parseSearchExpression(e, s, p), LAMBDA r :
    Bind(andLoopEnd(e, s, p, advance(s, r.p), Append(children, r.tree)), LAMBDA n :
      IF n.again THEN andLoop(e, s, n.p, Append(children, r.tree))
      ELSE [tree |-> AndFilter(Append(children, r.tree)), p |-> n.p]))

parseAndGroup(e, s, p) ==
  Bind(advance(s, p), LAMBDA p0 :
    IF p0.iter = end_(s) THEN [tree |-> NopFilter, p |-> p0]
    ELSE andLoop(e, s, p0, <<>>))

\* if (iter_ != end_) { if (*iter_ == ')') ++iter_; }
closeGroup(s, p) ==
  IF p.iter # end_(s) /\ s[p.iter] = ")" THEN [p EXCEPT !.iter = @ + 1] ELSE p

\* parseSearchExpression, had a negation of a negation been collapsed.
parseSearchExpression_Collapse(e, s, p) ==
  Bind(advance(s, p), LAMBDA p0 :
    IF p0.iter = end_(s) THEN [tree |-> NopFilter, p |-> p0]
    ELSE IF s[p0.iter] = "("
    THEN Bind(parseOrGroup(e, s, advance(s, [p0 EXCEPT !.iter = @ + 1])), LAMBDA r :
           [tree |-> r.tree, p |-> closeGroup(s, advance(s, r.p))])
    ELSE IF s[p0.iter] = "-"
    THEN Bind(parseSearchExpression(e, s, [p0 EXCEPT !.iter = @ + 1]), LAMBDA r :
           IF r.tree.type = "Not" THEN [tree |-> r.tree.child_, p |-> r.p]
           ELSE IF r.tree.type # "Nop" THEN [tree |-> NotFilter(r.tree), p |-> r.p] ELSE r)
    ELSE parseSearchTerm(e, s, p0))

\* parseSearchExpression, had a group without its ')' been dropped.
parseSearchExpression_Strict(e, s, p) ==
  Bind(advance(s, p), LAMBDA p0 :
    IF p0.iter = end_(s) THEN [tree |-> NopFilter, p |-> p0]
    ELSE IF s[p0.iter] = "("
    THEN Bind(parseOrGroup(e, s, advance(s, [p0 EXCEPT !.iter = @ + 1])), LAMBDA r :
           [tree |-> IF advance(s, r.p).iter = end_(s) THEN NopFilter ELSE r.tree,
            p    |-> closeGroup(s, advance(s, r.p))])
    ELSE IF s[p0.iter] = "-"
    THEN Bind(parseSearchExpression(e, s, [p0 EXCEPT !.iter = @ + 1]), LAMBDA r :
           IF r.tree.type # "Nop" THEN [tree |-> NotFilter(r.tree), p |-> r.p] ELSE r)
    ELSE parseSearchTerm(e, s, p0))

parseSearchExpression(e, s, p) ==
  Bind(advance(s, p), LAMBDA p0 :
    IF p0.iter = end_(s) THEN [tree |-> NopFilter, p |-> p0]
    ELSE IF s[p0.iter] = "("
    THEN Bind(parseOrGroup(e, s, advance(s, [p0 EXCEPT !.iter = @ + 1])), LAMBDA r :
           [tree |-> r.tree, p |-> closeGroup(s, advance(s, r.p))])
    ELSE IF s[p0.iter] = "-"
    THEN Bind(parseSearchExpression(e, s, [p0 EXCEPT !.iter = @ + 1]), LAMBDA r :
           IF r.tree.type # "Nop" THEN [tree |-> NotFilter(r.tree), p |-> r.p] ELSE r)
    ELSE parseSearchTerm(e, s, p0))

\* parse(): iter_ and end_ are reset, buf_ is whatever the object holds.
parse(e, s, buf) ==
  parseOrGroup(e, s, [iter |-> 1, buf |-> buf, loops |-> <<>>, checks |-> <<>>])

(***************************************************************************)
(* Inputs: filter strings and songs                                        *)
(***************************************************************************)

\* The pieces filter strings are put together from: search words, white
\* space, grouping, negation, quotes, the column separator, a column name, a
\* prefix, and the keywords.
Lexemes ==
  { <<"q">>, <<"w">>, <<" ">>, <<"(">>, <<")">>, <<"-">>, <<":">>, <<"\"">>,
    <<"=">>, <<"O", "R">>, <<"A", "N", "D">>, col_artist }

\* The longest filter string, in lexemes.
MaxLexemes == 3

RECURSIVE concat(_)
concat(seqs) == IF seqs = <<>> THEN <<>> ELSE Head(seqs) \o concat(Tail(seqs))

\* Every string of at most MaxLexemes lexemes.
FilterStrings ==
  { concat(ls) : ls \in UNION { [1..n -> Lexemes] : n \in 0..MaxLexemes } }

\* Single terms: [column ':'] [prefix] value
ColumnParts ==
  { <<>> } \cup { c \o <<":">> : c \in {col_artist, col_title, col_genre, col_year, col_length, col_rating, <<"u">>} }

Prefixes ==
  { <<>>, <<"=">>, <<"!", "=">>, <<"<", ">">>, <<"<">>, <<">">>, <<"<", "=">>, <<">", "=">> }

Values ==
  { <<>>, <<"q">>, <<"Q">>, <<"w">>, <<"7">>, <<"0", "0", "7">>, <<"2", "0", "0">>,
    <<"0", ".", "8">>, <<"\"", "q", " ", "w", "\"">> }

TermStrings == { c \o x \o v : c \in ColumnParts, x \in Prefixes, v \in Values }

Song(artist, title, genre, year, sec, nsec, rating) ==
  [artist |-> artist, title |-> title, genre |-> genre, year |-> year,
   length_nanosec |-> [sec |-> sec, nsec |-> nsec], rating |-> rating]

Songs ==
  { Song(<<"Q">>, <<>>, <<"r", "o", "c", "k">>, 7, 215, 0, 8),
    Song(<<>>, <<"q">>, <<"j", "a", "z", "z">>, 1975, 199, 0, 0),
    Song(<<"w">>, <<>>, <<"p", "o", "p">>, 0, 201, 0, 10),
    Song(<<"q">>, <<"w">>, <<"r", "o", "c", "k">>, 77, 0, 500000000, 5),
    Song(<<"z">>, <<"q", " ", "w">>, <<>>, 2000, 20, 100000000, -10),
    Song(<<>>, <<>>, <<"p", "o", "p">>, 7, 200, 0, 8) }

(***************************************************************************)
(* The parser object and the tree it returns                               *)
(***************************************************************************)

VARIABLES
  engine,          \* which parser class the object is
  filter_string_,  \* FilterParser::filter_string_
  iter_,           \* FilterParser::iter_ (0: not yet set by parse())
  buf_,            \* FilterParser::buf_
  loops,           \* history: the loop iterations of the parse() call
  checks,          \* history: the checkAnd calls of the parse() call
  tree,            \* the tree parse() returned, NoTree before
  song,            \* the record the tree was last asked about
  accepted,        \* what accept() returned for it
  pc               \* "constructed", "parsed", "accepted"

\* The CollectionFilter proxy model and the filterAcceptsRow calls in progress
VARIABLES
  pattern,         \* filterRegularExpression().pattern()
  query_hash_,     \* CollectionFilter::query_hash_
  filter_tree_,    \* CollectionFilter::filter_tree_: a heap address, 0 for null
  heap,            \* the FilterTree objects allocated so far: [tree, freed]
  calls,           \* per evaluator, the locals of its filterAcceptsRow call
  rows,            \* history: the number of filterAcceptsRow calls begun
  log              \* history: the calls that reached the hash test

fvars == <<pattern, query_hash_, filter_tree_, heap, calls, rows, log>>

\* The SubsonicScrobbleRequest object and the network replies it created
VARIABLES
  scrobble_requests_queue_,   \* SubsonicScrobbleRequest::scrobble_requests_queue_
  scrobble_requests_active_,  \* SubsonicScrobbleRequest::scrobble_requests_active_
  replies_,                   \* SubsonicScrobbleRequest::replies_
  network,                    \* the QNetworkReply objects created so far: [request, state]
  created,                    \* history: the number of CreateScrobbleRequest calls
  handled                     \* history: the handled handler that ran, its reply and its path

svars == <<scrobble_requests_queue_, scrobble_requests_active_, replies_, network,
           created, handled>>

vars == <<engine, filter_string_, iter_, buf_, loops, checks, tree, song, accepted, pc, fvars, svars>>

NoTree == [type |-> "none"]
NoSong == [artist |-> <<>>]

\* FilterParser::FilterParser(filter_string), on the given strings
Constructed(strings) ==
  /\ engine \in Engines
  /\ filter_string_ \in strings
  /\ iter_ = 0
  /\ buf_ = <<>>
  /\ loops = <<>>
  /\ checks = <<>>
  /\ tree = NoTree
  /\ song = NoSong
  /\ accepted = FALSE
  /\ pc = "constructed"

\* No SubsonicScrobbleRequest
NoScrobbler ==
  /\ scrobble_requests_queue_ = <<>>
  /\ scrobble_requests_active_ = 0
  /\ replies_ = <<>>
  /\ network = <<>>
  /\ created = 0
  /\ handled = [handler |-> "", reply |-> 0, path |-> ""]

\* No CollectionFilter: the parser object stands alone.
NoFilter ==
  /\ pattern = <<>>
  /\ query_hash_ = 0
  /\ filter_tree_ = 0
  /\ heap = <<>>
  /\ calls = <<>>
  /\ rows = 0
  /\ log = <<>>

Init == Constructed(FilterStrings) /\ NoFilter /\ NoScrobbler

\* CollectionFilterParser::parse() / PlaylistFilterParser::parse()
Parse ==
  /\ pc = "constructed"
  /\ LET r == parse(engine, filter_string_, buf_)
     IN /\ tree' = r.tree
        /\ iter_' = r.p.iter
        /\ buf_' = r.p.buf
        /\ loops' = r.p.loops
        /\ checks' = r.p.checks
  /\ pc' = "parsed"
  /\ UNCHANGED <<engine, filter_string_, song, accepted, fvars, svars>>

\* tree->accept(song): the filter asks the tree about one record
Accept ==
  /\ pc \in {"parsed", "accepted"}
  /\ \E metadata \in Songs :
       /\ song' = metadata
       /\ accepted' = accept(engine, tree, metadata)
  /\ pc' = "accepted"
  /\ UNCHANGED <<engine, filter_string_, iter_, buf_, loops, checks, tree, fvars, svars>>

Next == Parse \/ Accept

Spec == Init /\ [][Next]_vars

\* The same parser objects, constructed on single terms.
InitTerm == Constructed(TermStrings) /\ NoFilter /\ NoScrobbler

SpecTerm == InitTerm /\ [][Next]_vars

\* Expressions: operands joined by negation, AND, OR and parentheses.
SP  == <<" ">>
AND == <<" ", "A", "N", "D", " ">>
OR  == <<" ", "O", "R", " ">>

grouped(x) == <<"(">> \o x \o <<")">>

GenreRock == col_genre \o <<":", "r", "o", "c", "k">>
GenrePop  == col_genre \o <<":", "p", "o", "p">>

\* Terms: words (one of them the single letter A), column terms, a quoted run.
Atoms ==
  { <<"q">>, <<"w">>, <<"A">>, col_artist \o <<":", "q">>, GenreRock, GenrePop,
    col_rating \o <<":", "<", "0", ".", "5">>, <<"\"", "q", " ", "w", "\"">> }

Words3 == { <<"q">>, <<"w">>, <<"A">>, GenreRock, GenrePop }

Groups ==
  { grouped(a) : a \in Atoms }
  \cup { grouped(a \o OR \o b) : a \in Words3, b \in Words3 }
  \cup { grouped(a \o SP \o b) : a \in Words3, b \in Words3 }

Operands == Atoms \cup Groups

\* The operands joined pairwise.
PairOperands == Atoms \cup { grouped(a) : a \in Words3 } \cup { grouped(<<"q">> \o OR \o <<"w">>) }

\* Expressions without parentheses.
FlatStrings ==
  Atoms
  \cup { <<"-">> \o a : a \in Atoms }
  \cup { a \o SP \o b : a \in Words3, b \in Words3 }
  \cup { a \o AND \o b : a \in Words3, b \in Words3 }
  \cup { a \o OR \o b : a \in Words3, b \in Words3 }
  \cup { a \o OR \o b \o SP \o c : a \in Words3, b \in Words3, c \in Words3 }

\* Unquoted runs of letters that begin like a keyword or hold one.
Tokens ==
  { <<"A">>, <<"A", "N">>, <<"O">>, <<"A", "q">>, <<"O", "q">>, <<"O", "R", "q">>,
    <<"A", "N", "D", "q">>, <<"z">> }

\* The keywords in lower and mixed case.
NoKeywords ==
  { <<"o", "r">>, <<"O", "r">>, <<"o", "R">>, <<"a", "n", "d">>, <<"A", "n", "d">>,
    <<"A", "N", "d">>, <<"a", "N", "D">> }

ExprStrings ==
  Operands
  \cup { a \o <<"-">> \o b : a \in Atoms, b \in Atoms }
  \cup { x \o SP \o t : x \in {<<"q">>, <<"w">>}, t \in Tokens }
  \cup { a \o SP \o k \o SP \o b : a \in {<<"q">>, <<"w">>}, k \in NoKeywords, b \in {<<"q">>, <<"w">>} }
  \cup { <<"(">> \o x : x \in FlatStrings }
  \cup { <<"-">> \o x : x \in Operands }
  \cup { <<"-", "-">> \o x : x \in Operands }
  \cup { a \o SP \o b : a \in PairOperands, b \in PairOperands }
  \cup { a \o AND \o b : a \in PairOperands, b \in PairOperands }
  \cup { a \o OR \o b \o SP \o c : a \in Words3, b \in Words3, c \in Words3 }
  \cup { grouped(a \o OR \o b) \o SP \o c : a \in Words3, b \in Words3, c \in Words3 }

\* Terms on the year: an ordering or equality prefix, or none, and a value.
NumericPrefixes == { <<>>, <<"=">>, <<"<">>, <<">">>, <<"<", "=">>, <<">", "=">> }

NumericStrings ==
  { col_year \o <<":">> \o x \o v : x \in NumericPrefixes, v \in Values \ {<<>>} }

\* The integer comparators in the hands of a caller: Gt, Ge, Lt and Le for a
\* few operands, each on a column whose text need not be a numeral.
IntTerms == {-1, 0, 7}

IntComparators ==
  UNION { { FilterParserGtComparator(k), FilterParserGeComparator(k),
            FilterParserLtComparator(k), FilterParserLeComparator(k) } : k \in IntTerms }

NumericTrees(e) ==
  { FilterColumnTerm(IF e = "collection" THEN c ELSE columnsAt(c), cmp) :
      c \in {col_artist, col_rating, col_year}, cmp \in IntComparators }

\* A parser object constructed on a term on the year, or an integer
\* comparator on a column, before any record was asked about.
InitNumeric ==
  /\ \/ Constructed(NumericStrings)
     \/ /\ engine \in Engines
        /\ filter_string_ = <<>>
        /\ iter_ = 0
        /\ buf_ = <<>>
        /\ loops = <<>>
        /\ checks = <<>>
        /\ tree \in NumericTrees(engine)
        /\ song = NoSong
        /\ accepted = FALSE
        /\ pc = "parsed"
  /\ NoFilter /\ NoScrobbler

SpecNumeric == InitNumeric /\ [][Next]_vars

\* Terms with a prefix before the column: prefix column ':' [prefix] value
PrefixedValues == { <<"q">>, <<"7">>, <<"0", ".", "8">> }

PrefixedStrings ==
  { x \o c \o y \o v : x \in Prefixes \ {<<>>}, c \in ColumnParts \ {<<>>},
                           y \in Prefixes, v \in PrefixedValues }

InitPrefixed == Constructed(PrefixedStrings) /\ NoFilter /\ NoScrobbler

SpecPrefixed == InitPrefixed /\ [][Next]_vars

\* Quoted runs: [column ':'] '"' text ['"'], the text holding the characters
\* that end or split an unquoted run.
col_titleC == col_title \o <<":">>

QuotedColumns == { <<>>, col_titleC, col_artist \o <<":">> }

QuotedTexts ==
  { <<"q", " ", "w">>, <<"q">>, <<" ">>, <<"q", "-", "w">>, <<"-", "q">>, <<"(", "q", ")">>,
    <<"q", ")">>, <<"w", ":", "q">>, <<"=", "q">>, <<">", "q">>, <<"!", "=", "q">>,
    <<"q", " ", "O", "R", " ", "w">>, <<"Q", " ", "A", "N", "D", " ">> }

QuotedStrings ==
  { c \o <<"\"">> \o x \o z : c \in QuotedColumns, x \in QuotedTexts, z \in {<<>>, <<"\"">>} }

InitQuoted == Constructed(QuotedStrings) /\ NoFilter /\ NoScrobbler

SpecQuoted == InitQuoted /\ [][Next]_vars

\* The same parser objects, constructed on expressions.
InitExpr == Constructed(ExprStrings) /\ NoFilter /\ NoScrobbler

SpecExpr == InitExpr /\ [][Next]_vars

\* Trees for the evaluator: the term nodes the parser of engine e builds for
\* three terms, And and Or nodes of up to MaxChildren children (none
\* included), and And, Or and Not nodes over those.
MaxChildren == 2

ArtistQ == col_artist \o <<":", "q">>
RatingLtHalf == col_rating \o <<":", "<", "0", ".", "5">>

termNode(e, x) == parse(e, x, <<>>).tree.children_[1].children_[1]

Leaves(e) == { termNode(e, x) : x \in { <<"q">>, ArtistQ, RatingLtHalf } }

seqsOver(S) == UNION { [1..n -> S] : n \in 0..MaxChildren }

Groups1(e) ==
  { AndFilter(cs) : cs \in seqsOver(Leaves(e)) } \cup { OrFilter(cs) : cs \in seqsOver(Leaves(e)) }

Trees(e) ==
  Leaves(e) \cup Groups1(e)
  \cup { NotFilter(t) : t \in Groups1(e) }
  \cup { AndFilter(<<t, u>>) : t \in Groups1(e), u \in {AndFilter(<<>>), OrFilter(<<>>)} }
  \cup { OrFilter(<<t, u>>) : t \in Groups1(e), u \in {AndFilter(<<>>), OrFilter(<<>>)} }
  \cup { OrFilter(<<t>>) : t \in Groups1(e) }

\* A tree in the hands of its owner, before any record was asked about.
InitTree ==
  /\ engine \in Engines
  /\ filter_string_ = <<>>
  /\ iter_ = 0
  /\ buf_ = <<>>
  /\ loops = <<>>
  /\ checks = <<>>
  /\ tree \in Trees(engine)
  /\ song = NoSong
  /\ accepted = FALSE
  /\ pc = "parsed"
  /\ NoFilter /\ NoScrobbler

SpecTree == InitTree /\ [][Accept]_vars

(***************************************************************************)
(* CollectionFilter: the proxy model that keeps the last parsed tree.      *)
(* filterAcceptsRow is modelled statement by statement, so that calls of   *)
(* several evaluators can interleave at every access to query_hash_ and    *)
(* filter_tree_.                                                           *)
(***************************************************************************)

\* The width of the hash, in bits.
HashBits == 3

RECURSIVE pow2(_)
pow2(k) == IF k = 0 THEN 1 ELSE 2 * pow2(k - 1)

\* qHash(QString): a hash of the code units, of HashBits bits
RECURSIVE hashFrom(_, _)
hashFrom(h, str) ==
  IF str = <<>> THEN h
  ELSE hashFrom((31 * h + Code(Head(str))) % pow2(HashBits), Tail(str))

qHash(str) == hashFrom(0, str)

isWordChar(c) ==
  \/ c \in Digits
  \/ (Code("A") <= Code(c) /\ Code(c) <= Code("R"))
  \/ (Code("a") <= Code(c) /\ Code(c) <= Code("z"))

\* QRegularExpression::escape(str), as setFilterFixedString applies it
RECURSIVE escape(_)
escape(str) ==
  IF str = <<>> THEN <<>>
  ELSE (IF isWordChar(Head(str)) THEN <<Head(str)>> ELSE <<"\\", Head(str)>>) \o escape(Tail(str))

\* QString::remove(QLatin1Char('\\'))
removeBackslash(str) == SelectSeq(str, LAMBDA c : c # "\\")

\* What IndexToItem(idx) gives for a row: no item, or a CollectionItem of some
\* type; a song item carries its metadata, valid or not.
NoItem == [type |-> "None"]

CollectionItems ==
  { NoItem, [type |-> "Container"], [type |-> "LoadingIndicator"],
    [type |-> "Song", valid |-> FALSE, metadata |-> NoSong] }
  \cup { [type |-> "Song", valid |-> TRUE, metadata |-> s] :
           s \in { m \in Songs : m.artist = <<"q">> } }

\* The strings the user types into the filter box.
TypedStrings == { <<>>, <<"q">>, <<"w">>, <<"w", "q">> }

\* The most filterAcceptsRow calls in one behaviour.
MaxRows == 3

\* The locals of a call that has not begun.
Idle ==
  [pc |-> "idle", filter_string |-> <<>>, item |-> NoItem, hash |-> 0,
   old |-> 0, ptr |-> 0, used |-> NoTree, fault |-> "", result |-> FALSE]

\* CollectionFilter::CollectionFilter(parent), with the given evaluators
FilterConstructed(evaluators) ==
  /\ Constructed({<<>>})
  /\ engine = "collection"
  /\ pattern = <<>>
  /\ query_hash_ = 0
  /\ filter_tree_ = 0
  /\ heap = <<>>
  /\ calls = [t \in evaluators |-> Idle]
  /\ rows = 0
  /\ log = <<>>
  /\ NoScrobbler

pvars == <<engine, filter_string_, iter_, buf_, loops, checks, tree, song, accepted, pc>>

\* CollectionFilter::SetFilterString: setFilterFixedString(filter_string)
SetFilterString ==
  /\ calls # <<>>
  /\ \E str \in TypedStrings : pattern' = escape(str)
  /\ UNCHANGED <<query_hash_, filter_tree_, heap, calls, rows, log, pvars, svars>>

\* return value of a call that ends before the hash test
returns(c, value) == [c EXCEPT !.pc = "done", !.result = value]

\* filterAcceptsRow up to size_t hash = qHash(filter_string)
Begin(t) ==
  /\ calls[t].pc = "idle"
  /\ rows < MaxRows
  /\ rows' = rows + 1
  /\ \E item \in CollectionItems :
       LET filter_string == removeBackslash(pattern)
           c == [calls[t] EXCEPT !.item = item, !.filter_string = filter_string]
       IN calls' = [calls EXCEPT ![t] =
            IF item = NoItem THEN returns(c, FALSE)
            ELSE IF filter_string = <<>> THEN returns(c, TRUE)
            ELSE IF item.type # "Song" THEN returns(c, item.type = "LoadingIndicator")
            ELSE [c EXCEPT !.pc = "compare", !.hash = qHash(filter_string)]]
  /\ UNCHANGED <<pattern, query_hash_, filter_tree_, heap, log, pvars, svars>>

\* Compare, had the tree been parsed anew for every row.
Compare_EveryRow(t) ==
  /\ calls[t].pc = "compare"
  /\ calls' = [calls EXCEPT ![t].pc = "reset"]
  /\ log' = Append(log, [filter_string |-> calls[t].filter_string, hash |-> calls[t].hash,
                         stored |-> query_hash_, parsed |-> TRUE])
  /\ UNCHANGED <<pattern, query_hash_, filter_tree_, heap, rows, pvars, svars>>

\* if (hash != query_hash_)
Compare(t) ==
  /\ calls[t].pc = "compare"
  /\ calls' = [calls EXCEPT ![t].pc = IF calls[t].hash # query_hash_ THEN "reset" ELSE "accept"]
  /\ log' = Append(log, [filter_string |-> calls[t].filter_string, hash |-> calls[t].hash,
                         stored |-> query_hash_, parsed |-> calls[t].hash # query_hash_])
  /\ UNCHANGED <<pattern, query_hash_, filter_tree_, heap, rows, pvars, svars>>

\* CollectionFilterParser p(filter_string); filter_tree_.reset(p.parse()):
\* the new tree is allocated and the pointer is exchanged
Reset(t) ==
  /\ calls[t].pc = "reset"
  /\ heap' = Append(heap, [tree  |-> parse("collection", calls[t].filter_string, <<>>).tree,
                           freed |-> FALSE])
  /\ filter_tree_' = Len(heap) + 1
  /\ calls' = [calls EXCEPT ![t].pc = "cleanup", ![t].old = filter_tree_]
  /\ UNCHANGED <<pattern, query_hash_, rows, log, pvars, svars>>

\* QScopedPointer::reset: delete oldD
Cleanup(t) ==
  /\ calls[t].pc = "cleanup"
  /\ LET old == calls[t].old
     IN /\ heap' = IF old = 0 THEN heap ELSE [heap EXCEPT ![old].freed = TRUE]
        /\ calls' = [calls EXCEPT ![t].pc = "store",
                                  ![t].fault = IF old # 0 /\ heap[old].freed THEN "double free" ELSE @]
  /\ UNCHANGED <<pattern, query_hash_, filter_tree_, rows, log, pvars, svars>>

\* query_hash_ = hash
StoreHash(t) ==
  /\ calls[t].pc = "store"
  /\ query_hash_' = calls[t].hash
  /\ calls' = [calls EXCEPT ![t].pc = "accept"]
  /\ UNCHANGED <<pattern, filter_tree_, heap, rows, log, pvars, svars>>

\* item->metadata.is_valid() && filter_tree_-> : the pointer is read
Deref(t) ==
  /\ calls[t].pc = "accept"
  /\ calls' = [calls EXCEPT ![t] =
       IF ~calls[t].item.valid THEN returns(@, FALSE)
       ELSE [@ EXCEPT !.pc = "visit", !.ptr = filter_tree_]]
  /\ UNCHANGED <<pattern, query_hash_, filter_tree_, heap, rows, log, pvars, svars>>

\* ->accept(item->metadata): the tree at the pointer is evaluated; through a
\* null pointer or a pointer to a freed tree the behaviour is undefined
AcceptRow(t) ==
  /\ calls[t].pc = "visit"
  /\ LET ptr == calls[t].ptr
     IN IF ptr = 0 \/ heap[ptr].freed
        THEN \E value \in BOOLEAN :
               calls' = [calls EXCEPT ![t] =
                 [returns(@, value) EXCEPT !.fault = IF ptr = 0 THEN "null" ELSE "use after free"]]
        ELSE calls' = [calls EXCEPT ![t] =
               [returns(@, accept("collection", heap[ptr].tree, calls[t].item.metadata))
                  EXCEPT !.used = heap[ptr].tree]]
  /\ UNCHANGED <<pattern, query_hash_, filter_tree_, heap, rows, log, pvars, svars>>

\* the call returns; its locals go
Return(t) ==
  /\ calls[t].pc = "done"
  /\ calls' = [calls EXCEPT ![t] = Idle]
  /\ UNCHANGED <<pattern, query_hash_, filter_tree_, heap, rows, log, pvars, svars>>

NextFilter ==
  \/ SetFilterString
  \/ \E t \in DOMAIN calls : Begin(t)
  \/ \E t \in DOMAIN calls : Compare(t)
  \/ \E t \in DOMAIN calls : Reset(t)
  \/ \E t \in DOMAIN calls : Cleanup(t)
  \/ \E t \in DOMAIN calls : StoreHash(t)
  \/ \E t \in DOMAIN calls : Deref(t)
  \/ \E t \in DOMAIN calls : AcceptRow(t)
  \/ \E t \in DOMAIN calls : Return(t)

\* The program: the view calls filterAcceptsRow from the GUI thread, one call
\* at a time.
InitFilter == FilterConstructed({1})

SpecFilter == InitFilter /\ [][NextFilter]_vars

\* Two evaluators calling filterAcceptsRow concurrently.
InitEvaluators == FilterConstructed({1, 2})

SpecEvaluators == InitEvaluators /\ [][NextFilter]_vars

(***************************************************************************)
(* SubsonicScrobbleRequest: the queue of scrobble requests.  The handlers  *)
(* run on the event loop, one at a time, each to its end.  A scrobbler is  *)
(* [queue, active, replies, network]; a request is its song id, the         *)
(* number of the CreateScrobbleRequest call; a reply is its index in       *)
(* network.                                                                *)
(***************************************************************************)

kMaxConcurrentScrobbleRequests == 3

\* The most CreateScrobbleRequest calls in one behaviour.
MaxRequests == 5

\* QQueue::dequeue, had it taken the newest request.
dequeue_Newest(queue) == [value |-> queue[Len(queue)], rest |-> SubSeq(queue, 1, Len(queue) - 1)]

\* QQueue::dequeue(): the oldest request and the queue without it
dequeue(queue) == [value |-> Head(queue), rest |-> Tail(queue)]

\* QList::removeAll(reply)
removeAll(list, reply) == SelectSeq(list, LAMBDA r : r # reply)

\* CreateGetRequest("scrobble", params): a new QNetworkReply for the request
CreateGetRequest(net, request) == Append(net, [request |-> request, state |-> "running"])

\* FlushScrobbleRequests, had the loop gone on until the queue is empty.
RECURSIVE FlushScrobbleRequests_All(_)
FlushScrobbleRequests_All(s) ==
  IF s.queue # <<>>
  THEN LET request == dequeue(s.queue)
       IN FlushScrobbleRequests_All(
            [s EXCEPT !.queue = request.rest,
                      !.active = @ + 1,
                      !.network = CreateGetRequest(@, request.value),
                      !.replies = Append(@, Len(s.network) + 1)])
  ELSE s

\* void SubsonicScrobbleRequest::FlushScrobbleRequests()
RECURSIVE FlushScrobbleRequests(_)
FlushScrobbleRequests(s) ==
  IF s.queue # <<>> /\ s.active < kMaxConcurrentScrobbleRequests
  THEN LET request == dequeue(s.queue)
       IN FlushScrobbleRequests(
            [s EXCEPT !.queue = request.rest,
                      !.active = @ + 1,
                      !.network = CreateGetRequest(@, request.value),
                      !.replies = Append(@, Len(s.network) + 1)])
  ELSE s

\* FinishCheck, had it left the queue alone.
FinishCheck_Idle(s) == s

\* void SubsonicScrobbleRequest::FinishCheck()
FinishCheck(s) ==
  IF s.queue # <<>> /\ s.active < kMaxConcurrentScrobbleRequests
  THEN FlushScrobbleRequests(s) ELSE s

\* void SubsonicScrobbleRequest::Error(error, debug): the message goes to
\* the log and to errors_, which nothing here reads; then FinishCheck()
Error(s, error) == FinishCheck(s)

\* The ways through ScrobbleReplyReceived for a reply it holds: what
\* GetReplyData and ExtractJsonObj give.
ReplyPaths ==
  { "empty data", "empty json", "error not an object", "error", "error incomplete", "success" }

\* ScrobbleReplyReceived, had it not looked for the reply in replies_.
replyReceived_Unchecked(s, reply, path) ==
  LET s1 == [s EXCEPT !.replies = removeAll(@, reply),
                      !.network[reply].state = "deleted",
                      !.active = @ - 1]
  IN CASE path = "empty data"          -> FinishCheck(s1)
       [] path = "empty json"          -> FinishCheck(s1)
       [] path = "error not an object" -> FinishCheck(Error(s1, path))
       [] path = "error"               -> FinishCheck(Error(s1, path))
       [] path = "error incomplete"    -> FinishCheck(Error(s1, path))
       [] path = "success"             -> FinishCheck(s1)

\* void SubsonicScrobbleRequest::ScrobbleReplyReceived(QNetworkReply *reply)
replyReceived(s, reply, path) ==
  IF ~inSeq(reply, s.replies) THEN s
  ELSE LET s1 == [s EXCEPT !.replies = removeAll(@, reply),
                           !.network[reply].state = "deleted",
                           !.active = @ - 1]
       IN CASE path = "empty data"          -> FinishCheck(s1)
            [] path = "empty json"          -> FinishCheck(s1)
            [] path = "error not an object" -> FinishCheck(Error(s1, path))
            [] path = "error"               -> FinishCheck(Error(s1, path))
            [] path = "error incomplete"    -> FinishCheck(Error(s1, path))
            [] path = "success"             -> FinishCheck(s1)

\* The members of the object, as a scrobbler
Scrobbler ==
  [queue |-> scrobble_requests_queue_, active |-> scrobble_requests_active_,
   replies |-> replies_, network |-> network]

\* The members of the object become those of scrobbler s
Becomes(s) ==
  /\ scrobble_requests_queue_' = s.queue
  /\ scrobble_requests_active_' = s.active
  /\ replies_' = s.replies
  /\ network' = s.network

\* void SubsonicScrobbleRequest::CreateScrobbleRequest(song_id, submission, start_time)
CreateScrobbleRequest ==
  /\ created < MaxRequests
  /\ created' = created + 1
  /\ LET s == [Scrobbler EXCEPT !.queue = Append(@, created + 1)]
     IN Becomes(IF s.active < kMaxConcurrentScrobbleRequests THEN FlushScrobbleRequests(s) ELSE s)
  /\ handled' = [handler |-> "CreateScrobbleRequest", reply |-> 0, path |-> ""]
  /\ UNCHANGED <<pvars, fvars>>

\* The finished signal of a reply calls ScrobbleReplyReceived(reply); the
\* reply is one the object holds, or one it no longer holds.
ScrobbleReplyReceived(reply) ==
  /\ reply \in DOMAIN network
  /\ \E path \in ReplyPaths :
       /\ Becomes(replyReceived(Scrobbler, reply, path))
       /\ handled' = [handler |-> "ScrobbleReplyReceived", reply |-> reply,
                   path |-> IF inSeq(reply, replies_) THEN path ELSE "not held"]
  /\ UNCHANGED <<created, pvars, fvars>>

NextScrobble ==
  \/ CreateScrobbleRequest
  \/ \E reply \in 1..MaxRequests : ScrobbleReplyReceived(reply)

\* SubsonicScrobbleRequest::SubsonicScrobbleRequest(service, url_handler, app, parent)
InitScrobble ==
  /\ Constructed({<<>>})
  /\ engine = "collection"
  /\ pattern = <<>>
  /\ query_hash_ = 0
  /\ filter_tree_ = 0
  /\ heap = <<>>
  /\ calls = <<>>
  /\ rows = 0
  /\ log = <<>>
  /\ NoScrobbler

SpecScrobble == InitScrobble /\ [][NextScrobble]_vars

\* The finished signal of a running reply the object holds
Finished ==
  \E reply \in 1..MaxRequests :
    /\ inSeq(reply, replies_)
    /\ ScrobbleReplyReceived(reply)

\* The same, with the network finishing its replies: while replies are
\* running, one of them finishes in the end.
SpecScrobbleLive ==
  /\ InitScrobble /\ [][NextScrobble]_vars
  /\ WF_vars(Finished)

(***************************************************************************)
(* Properties                                                              *)
(***************************************************************************)

parsed == pc # "constructed"

\* C1: parse is total: it returns a tree for every input string, and every
\* iteration of the and-group loop and of the or-group loop advances the scan
\* position iter_ or leaves the loop.
C1_ParseTotalWithProgress ==
  parsed =>
    /\ tree.type \in {"Nop", "Or"}
    /\ \A k \in DOMAIN loops : loops[k].exits \/ loops[k].to > loops[k].from

isBlank(s) == \A i \in DOMAIN s : isSpace(s[i])

\* C2: the tree parsed from the empty string, or from a string of white space
\* only, accepts every record.
C2_BlankFilterAcceptsAll ==
  (pc = "accepted" /\ isBlank(filter_string_)) => accepted

C2_Witness ==
  pc = "accepted" /\ isBlank(filter_string_) /\ filter_string_ # <<>> /\ accepted

\* Strings without search text: white space, '-', parentheses, empty quotes,
\* and a column name with an empty value (the value ends at the end of the
\* string or at white space, a parenthesis or '-').
VacuousEnds == { <<" ">>, <<"-">>, <<"(">>, <<")">> }

VacuousColumns == { col_artist \o <<":">>, col_artist \o <<":", "\"", "\"">> }

VacuousStrings ==
  { concat(ls) :
      ls \in { l \in UNION { [1..n -> VacuousEnds \cup VacuousColumns \cup {<<"\"", "\"">>}] :
                               n \in 0..MaxLexemes } :
                 \A i \in DOMAIN l :
                    l[i] \in VacuousColumns => (i = Len(l) \/ l[i + 1] \in VacuousEnds) } }

\* C4: a filter string without search text ("-", "()", "-()", "artist:") is
\* not rejected and parses to a tree that accepts every record.
C4_VacuousFilterAcceptsAll ==
  (pc = "accepted" /\ filter_string_ \in VacuousStrings) => accepted

\* The keyword kw stands somewhere in s, followed by white space, '-' or '('.
keywordOccurs(s, kw) ==
  \E i \in 1..Len(s) :
     /\ i + Len(kw) <= end_(s)
     /\ SubSeq(s, i, i + Len(kw) - 1) = kw
     /\ atKeywordEnd(s, i + Len(kw))

\* C5: AND and OR are taken as operators only where the upper-case token is
\* followed by white space, '-' or '(': a parse that took one as an operator
\* read it at such a place, and never at the end of the input.
C5_KeywordNeedsFollower ==
  parsed =>
    \A k \in DOMAIN loops :
       /\ loops[k].keyword = "OR" => keywordOccurs(filter_string_, <<"O", "R">>)
       /\ loops[k].keyword = "AND" => keywordOccurs(filter_string_, <<"A", "N", "D">>)

\* C6: parse scans the whole input: when it returns, iter_ equals end_ (an
\* unmatched ')' is stepped over and the terms after it are parsed).
C6_ScansWholeInput ==
  parsed => iter_ = end_(filter_string_)

\* C7: for every column c and value v, "c:<>v" builds the tree of "c:!=v" and
\* accepts the same records.
C7_LtGtSelectsNe ==
  pc = "accepted" =>
    \A i \in DOMAIN kSearchColumns, v \in Values \ {<<>>} :
       LET c == kSearchColumns[i] \o <<":">>
       IN filter_string_ = c \o <<"<", ">">> \o v =>
            LET ne == parse(engine, c \o <<"!", "=">> \o v, <<>>).tree
            IN tree = ne /\ accepted = accept(engine, ne, song)

TextColumns == {col_artist, col_title}

Words == { <<"q">>, <<"Q">>, <<"w">> }

\* C8: on a text column c, in both engines, "c:=v" accepts exactly the records
\* whose field c equals v up to letter case, and "c:!=v" exactly the others.
C8_EqNeIgnoreCase ==
  pc = "accepted" =>
    \A c \in TextColumns, v \in Words :
       LET same == toLower(DataFromField(c, song)) = toLower(v)
       IN /\ filter_string_ = c \o <<":", "=">> \o v => accepted = same
          /\ filter_string_ = c \o <<":", "!", "=">> \o v => accepted = ~same

\* C9: a term on a known column tests that field only: a plain term "c:v" on
\* a text column accepts exactly the records whose field c contains v, any
\* term on a known column gives one verdict to records that agree on the
\* field, and a bare term "v" accepts exactly the records with some search
\* field containing v.
C9_ColumnScoping ==
  pc = "accepted" =>
    /\ \A c \in TextColumns, v \in Words :
          filter_string_ = c \o <<":">> \o v =>
            accepted = containsCI(DataFromField(c, song), v)
    /\ \A i \in DOMAIN kSearchColumns, x \in Prefixes, v \in Values :
          filter_string_ = kSearchColumns[i] \o <<":">> \o x \o v =>
            \A other \in Songs :
               DataFromField(kSearchColumns[i], other) = DataFromField(kSearchColumns[i], song)
                 => accept(engine, tree, other) = accepted
    /\ \A v \in Words :
          filter_string_ = v =>
            accepted = \E i \in DOMAIN kSearchColumns :
                          containsCI(DataFromField(kSearchColumns[i], song), v)

\* "artist:q" on a record with an empty artist and "q" as its title
C9_Witness ==
  /\ pc = "accepted"
  /\ filter_string_ = col_artist \o <<":", "q">>
  /\ song.artist = <<>> /\ song.title = <<"q">>
  /\ ~accepted

\* C10: a term on a column u that is not in the registry behaves as the same
\* term without the column: "u:" + p + v accepts the records p + v accepts,
\* for every prefix p and every value v without ':', and a term it builds
\* is the all-fields term.
C10_UnknownColumnIsBareTerm ==
  pc = "accepted" =>
    \A x \in Prefixes, v \in Values :
       filter_string_ = <<"u", ":">> \o x \o v =>
         /\ accepted = accept(engine, parse(engine, x \o v, <<>>).tree, song)
         /\ tree.children_[1].children_[1].type \in {"Nop", "Term"}

\* "u:>q" accepting a record through one of its fields
C10_Witness ==
  /\ pc = "accepted"
  /\ filter_string_ = <<"u", ":", ">", "q">>
  /\ tree.type = "Or" /\ tree.children_[1].children_[1].type = "Term"
  /\ accepted

\* The calls that parsed, among those that reached the hash test.
parsedCalls == { k \in DOMAIN log : log[k].parsed }

\* No call stands between the hash test and the end of the cache update.
cacheSettled == \A t \in DOMAIN calls : calls[t].pc \notin {"reset", "cleanup", "store"}

\* C11: a call whose filter string hashes to the stored query_hash_ does not
\* parse and leaves the tree and the hash as they are, also when the string
\* differs from the one the tree was parsed from; any other call parses its
\* string and replaces both.  So a call parses iff its hash differs from the
\* hash of the call before it (0 for the first), and as many trees are built
\* as there are such calls.
C11_ParseOncePerHashChange ==
  /\ \A k \in DOMAIN log :
        log[k].parsed <=> (log[k].hash # IF k = 1 THEN 0 ELSE log[k - 1].hash)
  /\ cacheSettled =>
        /\ Len(heap) = Cardinality(parsedCalls)
        /\ IF parsedCalls = {}
           THEN filter_tree_ = 0 /\ query_hash_ = 0
           ELSE LET last == CHOOSE k \in parsedCalls : \A j \in parsedCalls : j <= k
                IN /\ query_hash_ = log[last].hash
                   /\ filter_tree_ = Len(heap)
                   /\ ~heap[filter_tree_].freed
                   /\ heap[filter_tree_].tree = parse("collection", log[last].filter_string, <<>>).tree

\* a row evaluated under "wq" against the tree parsed from "q", whose hash
\* is the same
C11_Witness ==
  /\ Len(log) = 2
  /\ log[1].parsed /\ log[1].filter_string = <<"q">>
  /\ ~log[2].parsed /\ log[2].filter_string = <<"w", "q">>
  /\ calls[1].pc = "done" /\ calls[1].filter_string = <<"w", "q">>
  /\ calls[1].used = parse("collection", <<"q">>, <<>>).tree
  /\ Len(heap) = 1

\* The call of evaluator t has evaluated its row.
evaluated(t) == calls[t].pc = "done" /\ (calls[t].used # NoTree \/ calls[t].fault # "")

\* The hash of the call of evaluator t is the initial query_hash_ or the hash
\* of another filter string that was in use.
hashShared(t) ==
  \/ calls[t].hash = 0
  \/ \E k \in DOMAIN log :
        log[k].hash = calls[t].hash /\ log[k].filter_string # calls[t].filter_string

\* C12: when filterAcceptsRow calls of two evaluators interleave, no call
\* evaluates its row against a tree other than the parse of its own filter
\* string (hash collisions aside), and no call uses or frees a tree that has
\* been freed.
C12_SwapAtomic ==
  \A t \in DOMAIN calls :
     /\ calls[t].fault \notin {"use after free", "double free"}
     /\ (evaluated(t) /\ calls[t].fault = "" /\ ~hashShared(t)) =>
           calls[t].used = parse("collection", calls[t].filter_string, <<>>).tree

LengthGt200 == col_length \o <<":", ">", "2", "0", "0">>

seconds(n) == [sec |-> n, nsec |-> 0]

\* C13, with the stored value the spec gives: "length:>200" accepts the record
\* whose length is 20,100,000,000 ns, accepts 201 seconds and rejects 199
\* seconds.
C13_LengthSpecValue ==
  (pc = "accepted" /\ filter_string_ = LengthGt200) =>
    /\ song.length_nanosec = [sec |-> 20, nsec |-> 100000000] => accepted
    /\ song.length_nanosec = seconds(201) => accepted
    /\ song.length_nanosec = seconds(199) => ~accepted

\* C13, amended: "length:>200" accepts the record whose length is 201 seconds,
\* stored as 201,000,000,000 ns, and rejects the record of 199 seconds.
C13_LengthInSeconds ==
  (pc = "accepted" /\ filter_string_ = LengthGt200) =>
    /\ song.length_nanosec = seconds(201) => accepted
    /\ song.length_nanosec = seconds(199) => ~accepted

C13_Witness ==
  /\ pc = "accepted" /\ filter_string_ = LengthGt200
  /\ song.length_nanosec = seconds(201) /\ accepted
  /\ tree.children_[1].children_[1].cmp_.kind = "DropTail"

\* What the tree parsed from x says about the record of the state.
accepts(x) == accept(engine, parse(engine, x, <<>>).tree, song)

\* C14: for a term or parenthesised group x, "-" + x accepts exactly the
\* records x rejects, as a Not node over the tree of x, and "--" + x accepts
\* exactly the records x accepts, as two nested Not nodes.
C14_Negation ==
  pc = "accepted" =>
    /\ (Head(filter_string_) = "-" /\ Tail(filter_string_) \in Operands) =>
          /\ accepted = ~accepts(Tail(filter_string_))
          /\ tree.children_[1].children_[1].type = "Not"
    /\ (Len(filter_string_) > 2 /\ SubSeq(filter_string_, 1, 2) = <<"-", "-">>
          /\ Tail(Tail(filter_string_)) \in Operands) =>
          /\ accepted = accepts(Tail(Tail(filter_string_)))
          /\ tree.children_[1].children_[1].type = "Not"
          /\ tree.children_[1].children_[1].child_.type = "Not"

\* "--genre:rock" accepting a rock record
C14_Witness ==
  /\ pc = "accepted" /\ filter_string_ = <<"-", "-">> \o GenreRock
  /\ song.genre = <<"r", "o", "c", "k">> /\ accepted

\* C15: "-(a OR b)" accepts a record iff neither a nor b accepts it;
\* "-(genre:rock OR genre:pop)" accepts a jazz record and rejects a rock one.
C15_NegatedGroup ==
  pc = "accepted" =>
    /\ \A a \in Words3, b \in Words3 :
          filter_string_ = <<"-">> \o grouped(a \o OR \o b) =>
            accepted = (~accepts(a) /\ ~accepts(b))
    /\ filter_string_ = <<"-">> \o grouped(GenreRock \o OR \o GenrePop) =>
          /\ song.genre = <<"j", "a", "z", "z">> => accepted
          /\ song.genre = <<"r", "o", "c", "k">> => ~accepted

C15_Witness ==
  /\ pc = "accepted" /\ filter_string_ = <<"-">> \o grouped(GenreRock \o OR \o GenrePop)
  /\ song.genre = <<"j", "a", "z", "z">> /\ accepted

\* C17: AND is optional between adjacent sub-expressions: a + " " + b and
\* a + " AND " + b accept exactly the same records.
C17_AndOptional ==
  pc = "accepted" =>
    \A a \in PairOperands, b \in PairOperands :
       filter_string_ = a \o SP \o b => accepted = accepts(a \o AND \o b)

\* C18: AND binds tighter than OR: "a OR b c" accepts iff a accepts or both
\* b and c accept; "(a OR b) c" accepts iff c and at least one of a, b accept.
C18_Precedence ==
  pc = "accepted" =>
    \A a \in Words3, b \in Words3, c \in Words3 :
       /\ filter_string_ = a \o OR \o b \o SP \o c =>
            accepted = (accepts(a) \/ (accepts(b) /\ accepts(c)))
       /\ filter_string_ = grouped(a \o OR \o b) \o SP \o c =>
            accepted = (accepts(c) /\ (accepts(a) \/ accepts(b)))

\* C16: an And node accepts a record iff every child accepts it (with no
\* children: every record), an Or node iff some child accepts it (with no
\* children: no record); the tree of "artist:q AND rating:<0.5" rejects the
\* record whose artist matches and whose rating is 0.8.
C16_AndOrEvaluator ==
  pc = "accepted" =>
    /\ tree.type = "And" =>
          accepted = \A i \in DOMAIN tree.children_ : accept(engine, tree.children_[i], song)
    /\ tree.type = "Or" =>
          accepted = \E i \in DOMAIN tree.children_ : accept(engine, tree.children_[i], song)
    /\ tree = AndFilter(<<>>) => accepted
    /\ tree = OrFilter(<<>>) => ~accepted
    /\ (tree = parse(engine, ArtistQ \o AND \o RatingLtHalf, <<>>).tree
          /\ song.artist = <<"Q">> /\ song.rating = 8) => ~accepted

C16_Witness ==
  /\ pc = "accepted"
  /\ tree = parse(engine, ArtistQ \o AND \o RatingLtHalf, <<>>).tree
  /\ song.artist = <<"Q">> /\ song.rating = 8
  /\ accept(engine, tree.children_[1].children_[1], song)
  /\ ~accepted

noParens(x) == \A i \in DOMAIN x : x[i] \notin {"(", ")"}

\* C19: an unmatched '(' extends to the end of the input: for every filter x
\* without parentheses, "(" + x accepts exactly the records x accepts.
C19_UnmatchedOpenParen ==
  (pc = "accepted" /\ filter_string_ # <<>> /\ Head(filter_string_) = "("
     /\ noParens(Tail(filter_string_))) =>
    accepted = accepts(Tail(filter_string_))

\* "(q OR w" accepting a record through its second operand
C19_Witness ==
  /\ pc = "accepted" /\ filter_string_ = <<"(", "q", " ", "O", "R", " ", "w">>
  /\ song.artist = <<"w">> /\ accepted

\* [column ':'] of every registry column
KnownColumnParts == { kSearchColumns[i] \o <<":">> : i \in DOMAIN kSearchColumns }

\* The term node of the tree of a single term.
termOf(t) == t.children_[1].children_[1]

\* C20, as claimed: on every column a term with empty search text accepts
\* every record unless its prefix is '=', and with prefix '=' it accepts
\* exactly the records whose field is the empty string.
C20_EmptyTextAsClaimed ==
  pc = "accepted" =>
    \A i \in DOMAIN kSearchColumns, x \in Prefixes :
       filter_string_ = kSearchColumns[i] \o <<":">> \o x =>
         IF x = <<"=">> THEN accepted = (DataFromField(kSearchColumns[i], song) = <<>>)
         ELSE accepted

\* The prefixes parseSearchTerm reads as a prefix ("<>" is read as the prefix
\* '<' and the search text ">").
ParsedPrefixes == Prefixes \ {<<"<", ">">>}

\* C20, amended: with a prefix other than '=' the term is a Nop and accepts
\* every record; with '=' it is an equality term: on a text column it accepts
\* the records whose field is empty, on year and length those whose field is
\* 0 (length in whole seconds), on rating those whose rating is 0, and
\* without a column those with some empty search field.
C20_EmptySearchText ==
  pc = "accepted" =>
    /\ \A c \in ColumnParts, x \in ParsedPrefixes \ {<<"=">>} :
          (filter_string_ = c \o x /\ filter_string_ # <<>>) =>
            accepted /\ termOf(tree).type = "Nop"
    /\ \A c \in {col_artist, col_title, col_genre} :
          filter_string_ = c \o <<":", "=">> =>
            /\ accepted = (DataFromField(c, song) = <<>>)
            /\ termOf(tree).cmp_ = FilterParserEqComparator(<<>>)
    /\ filter_string_ = col_year \o <<":", "=">> => accepted = (song.year = 0)
    /\ filter_string_ = col_length \o <<":", "=">> =>
          accepted = (dropTail(nanosecToString(song.length_nanosec)) = <<"0">>)
    /\ filter_string_ = col_rating \o <<":", "=">> => accepted = (song.rating = 0)
    /\ filter_string_ \in {<<"=">>, <<"u", ":", "=">>} =>
          accepted = \E i \in DOMAIN kSearchColumns : DataFromField(kSearchColumns[i], song) = <<>>

\* "artist:=" accepting a record without artist
C20_Witness ==
  /\ pc = "accepted" /\ filter_string_ = col_artist \o <<":", "=">>
  /\ song.artist = <<>> /\ song.title = <<"q">> /\ accepted

\* C26: a call of checkAnd that returns false leaves the scan position iter_
\* where it was before the call.
C26_CheckAndRestoresIter ==
  parsed => \A k \in DOMAIN checks : ~checks[k].ok => checks[k].to = checks[k].from

\* C24: an unquoted run ends at '-', which starts a negation: "a-b" accepts
\* exactly the records "a -b" accepts, those a accepts and b rejects, and its
\* tree is the and-group of a and Not b.
C24_DashEndsRun ==
  pc = "accepted" =>
    \A a \in Atoms, b \in Atoms :
       filter_string_ = a \o <<"-">> \o b =>
         /\ accepted = accepts(a \o <<" ", "-">> \o b)
         /\ accepted = (accepts(a) /\ ~accepts(b))
         /\ tree = parse(engine, a \o <<" ", "-">> \o b, <<>>).tree
         /\ Len(tree.children_[1].children_) = 2
         /\ tree.children_[1].children_[2].type = "Not"

\* "q-w" accepting a record that matches q and not w
C24_Witness ==
  /\ pc = "accepted" /\ filter_string_ = <<"q", "-", "w">>
  /\ song.artist = <<"Q">> /\ accepted

\* C25: "or" and "and" in lower or mixed case between two terms are search
\* terms joined by implicit AND: "a or b" accepts a record iff a, the term
\* "or" and b all accept it, and its tree is one and-group of three terms.
C25_KeywordsCaseSensitive ==
  pc = "accepted" =>
    \A a \in {<<"q">>, <<"w">>}, k \in NoKeywords, b \in {<<"q">>, <<"w">>} :
       filter_string_ = a \o SP \o k \o SP \o b =>
         /\ accepted = (accepts(a) /\ accepts(toLower(k)) /\ accepts(b))
         /\ Len(tree.children_) = 1
         /\ Len(tree.children_[1].children_) = 3
         /\ tree.children_[1].children_[2] = termOf(parse(engine, toLower(k), <<>>).tree)

\* "q Or w" rejecting a record that matches q and w and has no "or" in it
C25_Witness ==
  /\ pc = "accepted" /\ filter_string_ = <<"q", " ", "O", "r", " ", "w">>
  /\ song.artist = <<"q">> /\ song.title = <<"w">> /\ ~accepted

\* C27: no bare token is discarded: for a term x and an unquoted run of
\* letters t other than AND and OR, x + " " + t accepts a record iff x and t
\* both accept it.
C27_NoTokenDiscarded ==
  pc = "accepted" =>
    \A x \in {<<"q">>, <<"w">>}, t \in Tokens :
       filter_string_ = x \o SP \o t => accepted = (accepts(x) /\ accepts(t))

\* C28: when parse() returns buf_ is empty, so that a second parse() on the
\* same parser object builds the same tree.
C28_BufEmptyAfterParse ==
  parsed =>
    /\ buf_ = <<>>
    /\ parse(engine, filter_string_, buf_).tree = tree

\* C29: filterAcceptsRow never dereferences a null filter_tree_.
C29_TreeNotNull ==
  \A t \in DOMAIN calls :
     /\ calls[t].pc = "visit" => calls[t].ptr # 0
     /\ calls[t].fault # "null"

\* The search fields of a term on column part c (all of them without column).
fieldsOf(c) ==
  IF c = <<>> THEN { kSearchColumns[i] : i \in DOMAIN kSearchColumns }
  ELSE { SubSeq(c, 1, Len(c) - 1) }

\* C23: inside double quotes white space, '(', ')', '-', ':' and the prefix
\* characters are search text, with or without the closing quote: the tree
\* is the single plain term for the quoted text, on the column named before
\* the quote, and accepts the records whose field contains the text;
\* title:"q w" accepts the record titled "q w" and rejects the one titled "q".
C23_QuotedRuns ==
  pc = "accepted" =>
    /\ \A c \in QuotedColumns, x \in QuotedTexts, z \in {<<>>, <<"\"">>} :
          filter_string_ = c \o <<"\"">> \o x \o z =>
            /\ Len(tree.children_) = 1 /\ Len(tree.children_[1].children_) = 1
            /\ termOf(tree).type = IF c = <<>> THEN "Term" ELSE "Column"
            /\ termOf(tree).cmp_ = FilterParserDefaultComparator(toLower(x))
            /\ accepted = \E f \in fieldsOf(c) : containsCI(DataFromField(f, song), x)
    /\ filter_string_ = col_titleC \o <<"\"", "q", " ", "w", "\"">> =>
          /\ song.title = <<"q", " ", "w">> => accepted
          /\ song.title = <<"q">> => ~accepted

C23_Witness ==
  /\ pc = "accepted" /\ filter_string_ = col_titleC \o <<"\"", "q", " ", "w", "\"">>
  /\ song.title = <<"q", " ", "w">> /\ accepted

col_yearC == col_year \o <<":">>

\* A value without its quotes
unquoted(v) == SelectSeq(v, LAMBDA ch : ch # "\"")

\* C21: "year:007", "year:=7" and "year:7" build the same tree, the equality
\* term on the year for the text "7", and accept the records whose year
\* reads "7".
C21_YearEquality ==
  pc = "accepted" =>
    (filter_string_ \in { col_yearC \o <<"0", "0", "7">>, col_yearC \o <<"=", "7">>,
                          col_yearC \o <<"7">> } =>
       /\ tree = parse(engine, col_yearC \o <<"7">>, <<>>).tree
       /\ termOf(tree).cmp_ = FilterParserEqComparator(<<"7">>)
       /\ accepted = (DataFromField(col_year, song) = <<"7">>))

C21_Witness ==
  /\ pc = "accepted" /\ filter_string_ = col_yearC \o <<"0", "0", "7">>
  /\ song.year = 7 /\ accepted

\* C30: on every known column and for every value v, "c:!=v" accepts the
\* records "c:=v" rejects, and no others.
C30_NeComplementsEq ==
  pc = "accepted" =>
    \A c \in KnownColumnParts, v \in Values \ {<<>>} :
      filter_string_ = c \o <<"!", "=">> \o v => accepted = ~accepts(c \o <<"=">> \o v)

\* Text that reads as an integer: an optional '-' and decimal digits.
isIntegerText(str) ==
  str # <<>> /\ \A i \in 1..Len(str) : str[i] \in Digits \/ (i = 1 /\ str[i] = "-" /\ Len(str) > 1)

\* What an integer comparator answers for the field value n.
intAnswer(cmp, n) ==
  CASE cmp.kind = "Gt" -> n > cmp.int_term_
    [] cmp.kind = "Ge" -> n >= cmp.int_term_
    [] cmp.kind = "Lt" -> n < cmp.int_term_
    [] cmp.kind = "Le" -> n <= cmp.int_term_

\* C22: on the year, search text that is not an integer is compared as 0:
\* with an ordering or equality prefix or none, the term builds the tree of
\* the same term for "0" and accepts the same records ("year:>q" those with
\* a year above 0); and an integer comparator handed field text that is not
\* an integer answers as for the field value 0.
C22_ParseFailureIsZero ==
  pc = "accepted" =>
    /\ \A x \in NumericPrefixes, v \in Values :
          (filter_string_ = col_yearC \o x \o v /\ v # <<>> /\ ~isIntegerText(toLower(unquoted(v)))) =>
            /\ tree = parse(engine, col_yearC \o x \o <<"0">>, <<>>).tree
            /\ accepted = accepts(col_yearC \o x \o <<"0">>)
            /\ x = <<">">> => accepted = (song.year > 0)
    /\ (filter_string_ = <<>> /\ ~isIntegerText(elementOf(engine, tree.column_, song))) =>
          accepted = intAnswer(tree.cmp_, 0)

C22_Witness ==
  /\ pc = "accepted" /\ filter_string_ = col_yearC \o <<">", "q">>
  /\ song.year = 7 /\ accepted

C22_WitnessField ==
  /\ pc = "accepted" /\ filter_string_ = <<>>
  /\ tree.cmp_ = FilterParserLeComparator(0)
  /\ song.artist = <<"Q">> /\ tree.column_ \in {col_artist, Column_Artist} /\ accepted

\* Stored durations in order: n1 <= n2 for the nanosecond counts
\* sec * 10^9 + nsec, with nsec below 10^9.
durationLe(a, b) ==
  a.sec < b.sec \/ (a.sec = b.sec /\ a.nsec <= b.nsec)

\* C31: "length:>k" is monotone in the stored duration: a record it accepts
\* is accepted also with every duration that is no shorter.
C31_DurationMonotone ==
  pc = "accepted" =>
    \A v \in {<<"7">>, <<"0", "0", "7">>, <<"2", "0", "0">>} :
      (filter_string_ = col_length \o <<":", ">">> \o v /\ accepted) =>
        \A longer \in Songs :
          durationLe(song.length_nanosec, longer.length_nanosec) => accept(engine, tree, longer)

\* C32: a comparison prefix before the column name is ignored: the term
\* builds the tree of the term without it, whatever follows the ':'.
C32_PrefixBeforeColumn ==
  parsed =>
    \A x \in Prefixes \ {<<>>}, c \in ColumnParts \ {<<>>}, y \in Prefixes, v \in PrefixedValues :
      filter_string_ = x \o c \o y \o v => tree = parse(engine, c \o y \o v, <<>>).tree

\* The name of the column a column term of engine e holds.
columnName(e, column) ==
  IF e = "collection" THEN column
  ELSE CHOOSE name \in DOMAIN columns_ : columns_[name] = column

\* A tree of engine e without what is particular to the engine: columns by
\* name, the columns of an all-fields term as a set.
RECURSIVE shape(_, _)
shape(e, t) ==
  CASE t.type = "Nop"    -> t
    [] t.type = "Not"    -> [type |-> "Not", child_ |-> shape(e, t.child_)]
    [] t.type \in {"Or", "And"} ->
         [type |-> t.type, children_ |-> [i \in DOMAIN t.children_ |-> shape(e, t.children_[i])]]
    [] t.type = "Column" -> [type |-> "Column", column_ |-> columnName(e, t.column_), cmp_ |-> t.cmp_]
    [] t.type = "Term"   ->
         [type |-> "Term", cmp_ |-> t.cmp_,
          columns_ |-> { columnName(e, t.columns_[i]) : i \in DOMAIN t.columns_ }]

otherEngine(e) == IF e = "collection" THEN "playlist" ELSE "collection"

\* C33: on the same filter string and the same registry the two parsers
\* build the same tree: the same nodes, comparator kinds and operands, on
\* the columns of the same names.
C33_OneEngine ==
  parsed =>
    shape(engine, tree) =
      shape(otherEngine(engine), parse(otherEngine(engine), filter_string_, <<>>).tree)

C33_Witness ==
  /\ parsed /\ engine = "playlist" /\ filter_string_ = LengthGt200
  /\ termOf(tree) = FilterColumnTerm(Column_Length,
                       FilterParserDropTailComparatorDecorator(FilterParserGtComparator(200)))

\* C34: the row policy of filterAcceptsRow.  With an empty filter string
\* every row with an item is accepted; with a non-empty string a row that is
\* not a song is accepted iff it is the loading indicator, and the call
\* leaves query_hash_ and filter_tree_ as they were; a song row is accepted
\* iff its metadata is valid and the tree filter_tree_ points to accepts it.
C34_RowPolicy ==
  /\ [](\A t \in DOMAIN calls :
          calls[t].pc = "done" =>
            /\ (calls[t].item # NoItem /\ calls[t].filter_string = <<>>) => calls[t].result
            /\ (calls[t].filter_string # <<>> /\ calls[t].item.type \in {"Container", "LoadingIndicator"}) =>
                  calls[t].result = (calls[t].item.type = "LoadingIndicator")
            /\ (calls[t].filter_string # <<>> /\ calls[t].item.type = "Song") =>
                  /\ calls[t].fault = ""
                  /\ calls[t].result =
                       (/\ calls[t].item.valid
                        /\ filter_tree_ # 0
                        /\ accept("collection", heap[filter_tree_].tree, calls[t].item.metadata)))
  /\ [][\A t \in DOMAIN calls :
          (/\ calls[t].pc = "idle" /\ calls'[t].pc = "done"
           /\ calls'[t].filter_string # <<>>
           /\ calls'[t].item.type \in {"Container", "LoadingIndicator"}) =>
            UNCHANGED <<query_hash_, filter_tree_>>]_vars

\* C35: scrobble_requests_active_ is between 0 and
\* kMaxConcurrentScrobbleRequests after every handler.
C35_ActiveBounded ==
  0 <= scrobble_requests_active_ /\ scrobble_requests_active_ <= kMaxConcurrentScrobbleRequests

C35_Witness ==
  /\ scrobble_requests_active_ = kMaxConcurrentScrobbleRequests
  /\ Len(scrobble_requests_queue_) = 2
  /\ handled.handler = "CreateScrobbleRequest"

\* The requests for which a network request was created, in that order.
dispatched == [i \in DOMAIN network |-> network[i].request]

\* C36: every request passed to CreateScrobbleRequest is in the end
\* dispatched, and no request twice, when every reply finishes in the end;
\* after a ScrobbleReplyReceived callback, whichever way it took, the queue
\* is empty or kMaxConcurrentScrobbleRequests requests are in flight.
C36_EveryRequestDispatched ==
  /\ [](handled.handler = "ScrobbleReplyReceived" =>
          \/ scrobble_requests_queue_ = <<>>
          \/ scrobble_requests_active_ = kMaxConcurrentScrobbleRequests)
  /\ [](\A i \in DOMAIN network, j \in DOMAIN network :
          network[i].request = network[j].request => i = j)
  /\ [](\A i \in DOMAIN network : ~inSeq(network[i].request, scrobble_requests_queue_))
  /\ \A request \in 1..MaxRequests :
        (created >= request) ~> inSeq(request, dispatched)

C36_Witness ==
  /\ handled.handler = "ScrobbleReplyReceived" /\ handled.path = "error incomplete"
  /\ dispatched = <<1, 2, 3, 4>> /\ network[4].state = "running"
  /\ scrobble_requests_queue_ = <<5>>

\* C37: scrobble_requests_active_ is the number of replies in replies_, and
\* a callback for a reply that is not in replies_ leaves the counter,
\* replies_ and the queue as they were.
C37_Accounting ==
  /\ [](scrobble_requests_active_ = Len(replies_))
  /\ [][(handled'.handler = "ScrobbleReplyReceived" /\ handled'.path = "not held") =>
          UNCHANGED <<scrobble_requests_active_, replies_, scrobble_requests_queue_>>]_vars

C37_Witness ==
  /\ handled.handler = "ScrobbleReplyReceived" /\ handled.path = "not held"
  /\ network[handled.reply].state = "deleted"
  /\ scrobble_requests_active_ = 2 /\ Len(replies_) = 2

\* C38: network requests are created in the order of the
\* CreateScrobbleRequest calls, whatever callbacks come in between.
C38_Fifo ==
  \A i \in DOMAIN dispatched, j \in DOMAIN dispatched :
    i < j => dispatched[i] < dispatched[j]

C38_Witness ==
  /\ dispatched = <<1, 2, 3, 4, 5>>
  /\ handled.handler = "ScrobbleReplyReceived" /\ handled.path = "success"
  /\ network[1].state = "running" /\ network[3].state = "deleted"

====
